---- MODULE Spec2Model ----
(***************************************************************************)
(* Krusty: the sub-agent pool (krusty-core/src/agent/subagent/mod.rs).     *)
(*                                                                         *)
(* SubAgentPool::execute, execute_with_progress and execute_builders share *)
(* one algorithm: a spawn loop with a stagger sleep, one spawned unit per  *)
(* task that acquires a semaphore permit under a timeout, checks its child *)
(* cancellation token and runs the agent loop, and a join loop that        *)
(* collects one result per handle.  The model follows the await points of  *)
(* that code: every action is the code between two suspension points.      *)
(*                                                                         *)
(* Time is in milliseconds.  Tick moves the clock to the next pending      *)
(* timer (the end of the stagger sleep, a unit's acquire deadline); what   *)
(* happens between two timers happens at the earlier one, since the code   *)
(* only ever compares the clock with those timers.                         *)
(*                                                                         *)
(* Two smaller parts have specifications of their own: AgentCancellation   *)
(* and its tokens (krusty-core/src/agent/cancellation.rs, TokenSpec) and   *)
(* the pool's SharedExploreCache over successive execute calls (CacheSpec).*)
(***************************************************************************)
EXTENDS Integers, Sequences, FiniteSets, TLC

\* ------------------------------------------------------------ bounds
MaxTasks == 3
MaxConcurrency == 2

\* ------------------------------------------------------------ constants
SEMAPHORE_TIMEOUT == 300
DEFAULT_STAGGER_MS == 100
SemaphoreTimeoutMs == SEMAPHORE_TIMEOUT * 1000

VARIABLES
    tasks,            \* execute(tasks): the submitted batch, a sequence of task ids
    max_concurrency,  \* SubAgentPool.max_concurrency
    stagger_delay,    \* SubAgentPool.stagger_delay, in ms
    mainpc,           \* position of execute: "loop", "sleep", "join", "done"
    idx,              \* handles.len(): number of units spawned so far
    wake,             \* end of the stagger sleep in progress (0 when none)
    st,               \* per task: its state in the unit's code
    launch,           \* per task: the time its unit was spawned
    permits,          \* free permits of the call's semaphore
    rootCancelled,    \* self.cancellation is cancelled
    childCancelled,   \* the tasks whose child token reports cancelled
    handle,           \* per task: what its JoinHandle resolves to
    results,          \* the results vector of the join loop
    joined,           \* number of handles the join loop has awaited
    invoked,          \* per task: how often the agent loop was entered
    lastStart,        \* the time the agent loop was last entered (None: never)
    progress,         \* per task: the AgentProgress events sent for it
    now               \* the clock

\* AgentCancellation and its tokens (cancellation.rs)
VARIABLES
    cancellations,    \* the AgentCancellation values alive: each one's token
    tokenParent,      \* per token: the token it is a child of (0: a root)
    tokenCancelled,   \* per token: is_cancelled()
    childTokens,      \* the tokens child_token() has returned, in order
    lastOp            \* the last operation on a token

tokenVars == <<cancellations, tokenParent, tokenCancelled, childTokens, lastOp>>

\* SharedExploreCache of a SubAgentPool and the GetOrCompute calls on it
VARIABLES
    batch,            \* the number of the execute call in progress on the pool
    entries,          \* per key: the cached value (NoEntry: none)
    inflight,         \* the keys whose computation is in flight
    cstate,           \* per caller: "idle", "computing", "waiting", "returned"
    ckey,             \* per caller: the key it asked for
    cresult,          \* per caller: what GetOrCompute returned to it
    computes,         \* per key: invocations of computeFn in this batch
    failures          \* per key: invocations of computeFn that failed, in this batch

cacheVars == <<batch, entries, inflight, cstate, ckey, cresult, computes, failures>>

\* SharedBuildContext: the per-path file locks and WithFileLock calls on them
VARIABLES
    fileLocks,        \* per path: its lock object (0: none created yet)
    lockHolder,       \* per lock object: the builder holding it (0: free)
    bstate,           \* per builder: "idle", "found", "waiting", "critical"
    bpath,            \* per builder: the path of its WithFileLock call
    myLock,           \* per builder: the lock object its call obtained
    lockCalls,        \* per builder: the WithFileLock calls it has made
    fnResult,         \* per builder: how fn of its last call ended
    lockContentions   \* stats.lockContentions

lockVars == <<fileLocks, lockHolder, bstate, bpath, myLock, lockCalls, fnResult,
              lockContentions>>

\* SharedBuildContext: the change statistics and RecordChange calls on them
VARIABLES
    linesAdded,       \* stats.linesAdded
    linesRemoved,     \* stats.linesRemoved
    filesModified,    \* stats.filesModified
    rpc,              \* per builder: its position inside RecordChange
    rchange,          \* per builder: the arguments of its RecordChange call
    recCalls,         \* per builder: the RecordChange calls it has made
    bjoined,          \* per builder: its unit has been joined
    argsAdded,        \* sum of the linesAdded arguments of all calls
    argsRemoved,      \* sum of the linesRemoved arguments of all calls
    argsModified      \* number of calls with fileModified = true

statsVars == <<linesAdded, linesRemoved, filesModified, rpc, rchange, recCalls,
               bjoined, argsAdded, argsRemoved, argsModified>>

\* BuildTool::execute: one call of the build tool
VARIABLES
    toolpc,           \* the statement the call has reached
    conventions,      \* params.conventions
    components,       \* params.components: None, or Some(number of components)
    ctxConventions,   \* the conventions the shared build context holds
    toolTasks,        \* tasks: the ids of the tasks the tool built
    unitSt,           \* per task: its spawned unit is unspawned, running or ended
    unitHandle,       \* per task: what its join handle resolves to
    toolResults,      \* the results execute_builders has collected
    errors            \* the tool's errors list

toolVars == <<toolpc, conventions, components, ctxConventions, toolTasks, unitSt,
              unitHandle, toolResults, errors>>

\* tui::utils::text: one line of text, wrapped and counted
VARIABLES
    line,             \* the line, a sequence of characters
    max_width,        \* the width it is wrapped at
    wrapped,          \* Some(what wrap_line returned), None before the call
    counted           \* Some(what count_wrapped_lines returned), None before the call

wrapVars == <<line, max_width, wrapped, counted>>

\* one SubAgentPool and the execute calls that run on it at the same time
VARIABLES
    poolMax,          \* self.max_concurrency
    callpc,           \* per call: not started, running or returned
    sem,              \* per call: the free permits of the semaphore it created
    unit              \* per call and task: where the task's unit is

callVars == <<poolMax, callpc, sem, unit>>

\* tui::handlers::update: the App's update check
VARIABLES
    channel,          \* channels.update_status: None, or Some(receiver)
    update_status,    \* self.update_status
    checkTask,        \* per started check: where its background task is
    polled            \* poll_update_status has run since the last task ended

updateVars == <<channel, update_status, checkTask, polled>>

\* auth::token_manager: one TokenManager and the callers of get_valid_token
VARIABLES
    mem,              \* self.tokens: None or Some(StoredTokens)
    disk,             \* the token file: None or Some(StoredTokens)
    guard,            \* the caller holding the write lock of self.tokens, 0 if none
    gpc,              \* per caller: its position in get_valid_token
    gres,             \* per caller: what its call returned
    behind,           \* per caller: who held the lock when it called
    stored,           \* per caller: stored_tokens, the StoredTokens it built
    refreshes,        \* refresh requests sent so far
    clock             \* Utc::now()

tmVars == <<mem, disk, guard, gpc, gres, behind, stored, refreshes, clock>>

\* ai::sse: one SseStreamProcessor and the stream it is fed
VARIABLES
    stream,           \* the whole character stream the server sends
    received,         \* the number of its characters handed to process_chunk so far
    partial_line,     \* self.partial_line
    handed,           \* the payloads handed to process_sse_data, in order
    sseFailed,        \* process_chunk has returned an Err
    splitInLine       \* some chunk ended inside a line

sseVars == <<stream, received, partial_line, handed, sseFailed, splitInLine>>

\* lsp::transport: one StdioTransport, its callers and the child's two pipes
VARIABLES
    stdin_lock,       \* the sender holding the guard of self.stdin, or 0
    stdin_bytes,      \* the bytes written to the child's stdin, in order
    stdin_closed,     \* the child has closed its stdin: writes fail
    send_pc,          \* each sender's position in send
    send_msg,         \* each sender's argument message
    stdout_lock,      \* the receiver holding the guard of self.stdout, or 0
    server_out,       \* the bytes the child writes to its stdout before closing it
    expected,         \* the bodies of the framed messages in server_out, in order
    read_pos,         \* the number of bytes of server_out read so far
    recv_pc,          \* each receiver's position in receive
    content_length,   \* each receiver's local content_length
    returned          \* the results receive has returned, in order

transportVars ==
    <<stdin_lock, stdin_bytes, stdin_closed, send_pc, send_msg, stdout_lock,
      server_out, expected, read_pos, recv_pc, content_length, returned>>

\* the state of the parts the pool's specification does not exercise
others == <<tokenVars, cacheVars, lockVars, statsVars, toolVars, wrapVars, callVars, updateVars, tmVars, sseVars, transportVars>>

poolVars == <<tasks, max_concurrency, stagger_delay, mainpc, idx, wake, st, launch,
              permits, rootCancelled, childCancelled, handle, results, joined,
              invoked, lastStart, progress, now>>

vars == <<poolVars, others>>

\* likewise for the specifications of the tokens and of the cache
notToken == <<poolVars, cacheVars, lockVars, statsVars, toolVars, wrapVars, callVars, updateVars, tmVars, sseVars, transportVars>>
notCache == <<poolVars, tokenVars, lockVars, statsVars, toolVars, wrapVars, callVars, updateVars, tmVars, sseVars, transportVars>>
\* and of the file locks
notLock == <<poolVars, tokenVars, cacheVars, statsVars, toolVars, wrapVars, callVars, updateVars, tmVars, sseVars, transportVars>>
\* and of the change statistics
notStats == <<poolVars, tokenVars, cacheVars, lockVars, toolVars, wrapVars, callVars, updateVars, tmVars, sseVars, transportVars>>
\* and of the build tool
notTool == <<poolVars, tokenVars, cacheVars, lockVars, statsVars, wrapVars, callVars, updateVars, tmVars, sseVars, transportVars>>
\* and of the text utilities
notWrap == <<poolVars, tokenVars, cacheVars, lockVars, statsVars, toolVars, callVars, updateVars, tmVars, sseVars, transportVars>>
\* and of the concurrent calls
notCalls == <<poolVars, tokenVars, cacheVars, lockVars, statsVars, toolVars, wrapVars, updateVars, tmVars, sseVars, transportVars>>
\* and of the update check
notUpdate == <<poolVars, tokenVars, cacheVars, lockVars, statsVars, toolVars, wrapVars, callVars, tmVars, sseVars, transportVars>>
\* and of the token manager
notTM == <<poolVars, tokenVars, cacheVars, lockVars, statsVars, toolVars, wrapVars, callVars, updateVars, sseVars, transportVars>>
\* and of the SSE processor
notSse == <<poolVars, tokenVars, cacheVars, lockVars, statsVars, toolVars, wrapVars, callVars, updateVars, tmVars, transportVars>>
\* and of the LSP transport
notTransport == <<poolVars, tokenVars, cacheVars, lockVars, statsVars, toolVars, wrapVars, callVars, updateVars, tmVars, sseVars>>

\* ------------------------------------------------------------ data
None == <<>>
Some(x) == <<x>>

\* s.starts_with(p)
StartsWith(s, p) == Len(s) >= Len(p) /\ SubSeq(s, 1, Len(p)) = p

\* build.rs names its tasks builder-<i>, i from 0
TaskId(i) == "builder-" \o ToString(i - 1)

N == Len(tasks)
Tasks == 1..N

\* faulty variant: the failed unit's result carries no error text
PoolFailureWithoutError(id, msg) ==
    [task_id |-> id, success |-> FALSE, output |-> "", files_examined |-> <<>>,
     duration_ms |-> 0, turns_used |-> 0, error |-> None]

\* The result of a unit that failed before the agent loop (timeout, cancel)
PoolFailure(id, msg) ==
    [task_id |-> id, success |-> FALSE, output |-> "", files_examined |-> <<>>,
     duration_ms |-> 0, turns_used |-> 0, error |-> Some(msg)]

TimeoutResult(id) ==
    PoolFailure(id, "Semaphore acquire timed out after " \o ToString(SEMAPHORE_TIMEOUT) \o "s")

\* Ok(Err(e)) of the acquire: the semaphore was closed
SemaphoreErrorResult(id) == PoolFailure(id, "Semaphore error: semaphore closed")

CancelledResult(id) == PoolFailure(id, "Cancelled")

\* The placeholder the join loop pushes for a unit that panicked
PanicPlaceholder ==
    PoolFailure("unknown", "Task panicked: task panicked")

\* What the agent loop returns for a task: a success or a failure of its own
AgentResult(id, ok) ==
    [task_id |-> id, success |-> ok,
     output |-> IF ok THEN "output" ELSE "",
     files_examined |-> IF ok THEN <<"file">> ELSE <<>>,
     duration_ms |-> 1, turns_used |-> 1,
     error |-> IF ok THEN None ELSE Some("agent error")]

\* The AgentProgress events the agent loop sends on the progress channel:
\* Started when it begins, Completed or Failed when it returns
StartedEvent == "Started"
TerminalEvent(ok) == IF ok THEN "Completed" ELSE "Failed"

Pending == [kind |-> "pending"]
Joined(r) == [kind |-> "ok", result |-> r]
Panic == [kind |-> "panic"]

Terminal == {"TimedOut", "Cancelled", "Succeeded", "Failed", "Panicked"}
HoldsPermit(i) == st[i] \in {"GotPermit", "Running"}
Holders == {i \in Tasks : HoldsPermit(i)}

Min(S) == CHOOSE m \in S : \A x \in S : m <= x

\* no AgentCancellation exists yet
NoTokens ==
    /\ cancellations = <<>>
    /\ tokenParent = <<>>
    /\ tokenCancelled = <<>>
    /\ childTokens = <<>>
    /\ lastOp = [op |-> "none", arg |-> 0]

\* no cache exists yet
NoCache ==
    /\ batch = 0
    /\ entries = <<>>
    /\ inflight = {}
    /\ cstate = <<>>
    /\ ckey = <<>>
    /\ cresult = <<>>
    /\ computes = <<>>
    /\ failures = <<>>

\* no build context exists yet
NoLocks ==
    /\ fileLocks = <<>>
    /\ lockHolder = <<>>
    /\ bstate = <<>>
    /\ bpath = <<>>
    /\ myLock = <<>>
    /\ lockCalls = <<>>
    /\ fnResult = <<>>
    /\ lockContentions = 0

\* no statistics exist yet
NoStats ==
    /\ linesAdded = 0
    /\ linesRemoved = 0
    /\ filesModified = 0
    /\ rpc = <<>>
    /\ rchange = <<>>
    /\ recCalls = <<>>
    /\ bjoined = <<>>
    /\ argsAdded = 0
    /\ argsRemoved = 0
    /\ argsModified = 0

\* no build tool call is under way
NoTool ==
    /\ toolpc = "none"
    /\ conventions = <<>>
    /\ components = <<>>
    /\ ctxConventions = <<>>
    /\ toolTasks = <<>>
    /\ unitSt = <<>>
    /\ unitHandle = <<>>
    /\ toolResults = <<>>
    /\ errors = <<>>

\* no line is being wrapped
NoWrap ==
    /\ line = <<>>
    /\ max_width = 0
    /\ wrapped = <<>>
    /\ counted = <<>>

\* no pool with concurrent calls exists
NoCalls ==
    /\ poolMax = 0
    /\ callpc = <<>>
    /\ sem = <<>>
    /\ unit = <<>>

\* no App exists
NoUpdate ==
    /\ channel = <<>>
    /\ update_status = <<>>
    /\ checkTask = <<>>
    /\ polled = FALSE

\* no TokenManager exists
NoTokenManager ==
    /\ mem = <<>>
    /\ disk = <<>>
    /\ guard = 0
    /\ gpc = <<>>
    /\ gres = <<>>
    /\ behind = <<>>
    /\ stored = <<>>
    /\ refreshes = 0
    /\ clock = 0

\* no stream is being processed
NoSse ==
    /\ stream = ""
    /\ received = 0
    /\ partial_line = ""
    /\ handed = <<>>
    /\ sseFailed = FALSE
    /\ splitInLine = FALSE

\* no transport has been created
NoTransport ==
    /\ stdin_lock = 0
    /\ stdin_bytes = ""
    /\ stdin_closed = FALSE
    /\ send_pc = <<>>
    /\ send_msg = <<>>
    /\ stdout_lock = 0
    /\ server_out = ""
    /\ expected = <<>>
    /\ read_pos = 0
    /\ recv_pc = <<>>
    /\ content_length = <<>>
    /\ returned = <<>>

\* ------------------------------------------------------------ Init
Init ==
    /\ \E n \in 0..MaxTasks : tasks = [i \in 1..n |-> TaskId(i)]
    /\ max_concurrency \in 0..MaxConcurrency
    /\ stagger_delay \in {0, DEFAULT_STAGGER_MS}
    /\ mainpc = IF tasks = <<>> THEN "join" ELSE "loop"
    /\ idx = 0
    /\ wake = 0
    /\ st = [i \in Tasks |-> "Queued"]
    /\ launch = [i \in Tasks |-> 0]
    /\ permits = max_concurrency
    /\ rootCancelled = FALSE
    /\ childCancelled = {}
    /\ handle = [i \in Tasks |-> Pending]
    /\ results = <<>>
    /\ joined = 0
    /\ invoked = [i \in Tasks |-> 0]
    /\ lastStart = None
    /\ progress = [i \in Tasks |-> <<>>]
    /\ now = 0
    /\ NoTokens
    /\ NoCache
    /\ NoLocks
    /\ NoStats
    /\ NoTool
    /\ NoWrap
    /\ NoCalls
    /\ NoUpdate
    /\ NoTokenManager
    /\ NoSse
    /\ NoTransport

\* ------------------------------------------------------------ execute: spawn loop
\* faulty variant: the sleep also precedes the first spawn
NeedsStaggerAlways == stagger_delay /= 0

\* if idx > 0 && !stagger.is_zero() { sleep(stagger).await }
NeedsStagger == idx > 0 /\ stagger_delay /= 0

StaggerSleep ==
    /\ mainpc = "loop"
    /\ idx < N
    /\ NeedsStagger
    /\ mainpc' = "sleep"
    /\ wake' = now + stagger_delay
    /\ st' = [st EXCEPT ![idx + 1] = "Staggering"]
    /\ UNCHANGED <<tasks, max_concurrency, stagger_delay, idx, launch, permits,
                   rootCancelled, childCancelled, handle, results, joined, invoked, now,
                   lastStart, progress, others>>

\* faulty variant: the unit gets a fresh token, not a child of the root
ChildTokenFresh(i) == childCancelled

\* cancellation.child_token(): a child of a cancelled parent is cancelled
ChildToken(i) == IF rootCancelled THEN childCancelled \cup {i} ELSE childCancelled

\* faulty variant: the stagger sleep is started but not awaited
LaunchWithoutAwait ==
    /\ \/ mainpc = "loop" /\ idx < N /\ ~NeedsStagger
       \/ mainpc = "sleep"
    /\ childCancelled' = ChildToken(idx + 1)
    /\ st' = [st EXCEPT ![idx + 1] = "AwaitingPermit"]
    /\ launch' = [launch EXCEPT ![idx + 1] = now]
    /\ idx' = idx + 1
    /\ wake' = 0
    /\ mainpc' = IF idx + 1 = N THEN "join" ELSE "loop"
    /\ UNCHANGED <<tasks, max_concurrency, stagger_delay, permits, rootCancelled,
                   handle, results, joined, invoked, now,
                   lastStart, progress, others>>

\* let cancel = cancellation.child_token(); ...; tokio::spawn(..); handles.push(handle)
Launch ==
    /\ \/ mainpc = "loop" /\ idx < N /\ ~NeedsStagger
       \/ mainpc = "sleep" /\ now >= wake
    /\ childCancelled' = ChildToken(idx + 1)
    /\ st' = [st EXCEPT ![idx + 1] = "AwaitingPermit"]
    /\ launch' = [launch EXCEPT ![idx + 1] = now]
    /\ idx' = idx + 1
    /\ wake' = 0
    /\ mainpc' = IF idx + 1 = N THEN "join" ELSE "loop"
    /\ UNCHANGED <<tasks, max_concurrency, stagger_delay, permits, rootCancelled,
                   handle, results, joined, invoked, now,
                   lastStart, progress, others>>

\* ------------------------------------------------------------ the spawned unit
\* faulty variant: one deadline for the batch, counted from the first launch
DeadlineOfBatch(i) == launch[1] + SemaphoreTimeoutMs

\* the timeout is armed when the unit starts: SEMAPHORE_TIMEOUT after its launch
Deadline(i) == launch[i] + SemaphoreTimeoutMs

\* faulty variant: the acquire does not consult the semaphore's count
CanAcquireUnbounded(i) == st[i] = "AwaitingPermit"

\* sem.acquire() resolves only when the semaphore has a free permit
CanAcquire(i) == st[i] = "AwaitingPermit" /\ permits > 0

\* faulty variant: a release wakes every waiter, each believing it holds the permit
AcquireWakesAll(i) ==
    /\ CanAcquire(i)
    /\ st' = [j \in Tasks |-> IF st[j] = "AwaitingPermit" THEN "GotPermit" ELSE st[j]]
    /\ permits' = permits - 1
    /\ UNCHANGED <<tasks, max_concurrency, stagger_delay, mainpc, idx, wake, launch,
                   rootCancelled, childCancelled, handle, results, joined, invoked,
                   now,
                   lastStart, progress, others>>

\* timeout(SEMAPHORE_TIMEOUT, sem.acquire()) => Ok(Ok(p)).  The Ok(Err(e)) arm
\* (semaphore closed) has no action: nothing in the pool closes the semaphore.
Acquire(i) ==
    /\ CanAcquire(i)
    /\ st' = [st EXCEPT ![i] = "GotPermit"]
    /\ permits' = permits - 1
    /\ UNCHANGED <<tasks, max_concurrency, stagger_delay, mainpc, idx, wake, launch,
                   rootCancelled, childCancelled, handle, results, joined, invoked, now,
                   lastStart, progress, others>>

\* faulty variant: sem.acquire().await without the timeout around it
TimeoutNever(i) ==
    /\ FALSE
    /\ UNCHANGED vars

\* timeout(SEMAPHORE_TIMEOUT, sem.acquire()) => Err(Elapsed): the acquire is
\* polled first, so the timeout wins only when no permit is to be had
Timeout(i) ==
    /\ st[i] = "AwaitingPermit"
    /\ now >= Deadline(i)
    /\ permits = 0
    /\ st' = [st EXCEPT ![i] = "TimedOut"]
    /\ handle' = [handle EXCEPT ![i] = Joined(TimeoutResult(tasks[i]))]
    /\ UNCHANGED <<tasks, max_concurrency, stagger_delay, mainpc, idx, wake, launch,
                   permits, rootCancelled, childCancelled, results, joined, invoked, now,
                   lastStart, progress, others>>

\* faulty variant: the cancelled unit only logs and goes on to the agent loop
CheckCancelledFallsThrough(i) ==
    /\ st[i] = "GotPermit"
    /\ i \in childCancelled
    /\ st' = [st EXCEPT ![i] = "Running"]
    /\ invoked' = [invoked EXCEPT ![i] = @ + 1]
    /\ lastStart' = Some(now)
    /\ progress' = [progress EXCEPT ![i] = Append(@, StartedEvent)]
    /\ UNCHANGED <<tasks, max_concurrency, stagger_delay, mainpc, idx, wake, launch,
                   permits, rootCancelled, childCancelled, handle, results, joined,
                   now, others>>

\* if cancel.is_cancelled() { return .. "Cancelled" }: _permit is dropped on return
CheckCancelled(i) ==
    /\ st[i] = "GotPermit"
    /\ i \in childCancelled
    /\ st' = [st EXCEPT ![i] = "Cancelled"]
    /\ handle' = [handle EXCEPT ![i] = Joined(CancelledResult(tasks[i]))]
    /\ permits' = permits + 1
    /\ UNCHANGED <<tasks, max_concurrency, stagger_delay, mainpc, idx, wake, launch,
                   rootCancelled, childCancelled, results, joined, invoked, now,
                   lastStart, progress, others>>

\* faulty variant: the unit does not look at its token before the agent loop
StartAgentUnchecked(i) ==
    /\ st[i] = "GotPermit"
    /\ st' = [st EXCEPT ![i] = "Running"]
    /\ invoked' = [invoked EXCEPT ![i] = @ + 1]
    /\ lastStart' = Some(now)
    /\ progress' = [progress EXCEPT ![i] = Append(@, StartedEvent)]
    /\ UNCHANGED <<tasks, max_concurrency, stagger_delay, mainpc, idx, wake, launch,
                   permits, rootCancelled, childCancelled, handle, results, joined,
                   now, others>>

\* otherwise the unit enters execute_subagent_with_tools(..).await
StartAgent(i) ==
    /\ st[i] = "GotPermit"
    /\ i \notin childCancelled
    /\ st' = [st EXCEPT ![i] = "Running"]
    /\ invoked' = [invoked EXCEPT ![i] = @ + 1]
    /\ lastStart' = Some(now)
    /\ progress' = [progress EXCEPT ![i] = Append(@, StartedEvent)]
    /\ UNCHANGED <<tasks, max_concurrency, stagger_delay, mainpc, idx, wake, launch,
                   permits, rootCancelled, childCancelled, handle, results, joined,
                   now, others>>

\* faulty variant: a failed agent loop is run again under the same permit
AgentReturnRetries(i) ==
    /\ st[i] = "Running"
    /\ \/ /\ st' = [st EXCEPT ![i] = "Succeeded"]
          /\ handle' = [handle EXCEPT ![i] = Joined(AgentResult(tasks[i], TRUE))]
          /\ progress' = [progress EXCEPT ![i] = Append(@, TerminalEvent(TRUE))]
          /\ permits' = permits + 1
          /\ UNCHANGED invoked
       \/ /\ invoked[i] < 3
          /\ invoked' = [invoked EXCEPT ![i] = @ + 1]
          /\ UNCHANGED <<st, handle, progress, permits>>
    /\ UNCHANGED <<tasks, max_concurrency, stagger_delay, mainpc, idx, wake, launch,
                   rootCancelled, childCancelled, results, joined, now,
                   lastStart, others>>

\* the agent loop returns its result; the unit returns it and drops _permit
AgentReturn(i) ==
    /\ st[i] = "Running"
    /\ \E ok \in BOOLEAN :
        /\ st' = [st EXCEPT ![i] = IF ok THEN "Succeeded" ELSE "Failed"]
        /\ handle' = [handle EXCEPT ![i] = Joined(AgentResult(tasks[i], ok))]
        /\ progress' = [progress EXCEPT ![i] = Append(@, TerminalEvent(ok))]
    /\ permits' = permits + 1
    /\ UNCHANGED <<tasks, max_concurrency, stagger_delay, mainpc, idx, wake, launch,
                   rootCancelled, childCancelled, results, joined, invoked, now,
                   lastStart, others>>

\* faulty variant: the permit of a unit that panics is not given back
AgentPanicLeaksPermit(i) ==
    /\ st[i] = "Running"
    /\ st' = [st EXCEPT ![i] = "Panicked"]
    /\ handle' = [handle EXCEPT ![i] = Panic]
    /\ UNCHANGED <<tasks, max_concurrency, stagger_delay, mainpc, idx, wake, launch,
                   permits, rootCancelled, childCancelled, results, joined, invoked,
                   now, lastStart, progress, others>>

\* the agent loop panics: the unit unwinds, _permit is dropped, the JoinHandle
\* resolves to Err(JoinError)
AgentPanic(i) ==
    /\ st[i] = "Running"
    /\ st' = [st EXCEPT ![i] = "Panicked"]
    /\ handle' = [handle EXCEPT ![i] = Panic]
    /\ permits' = permits + 1
    /\ UNCHANGED <<tasks, max_concurrency, stagger_delay, mainpc, idx, wake, launch,
                   rootCancelled, childCancelled, results, joined, invoked, now,
                   lastStart, progress, others>>

\* ------------------------------------------------------------ execute: join loop
\* match handle.await { Ok(result) => result, Err(e) => placeholder }
JoinResult(h) == IF h.kind = "ok" THEN h.result ELSE PanicPlaceholder

\* faulty variant: the Err arm only logs, it pushes no placeholder
JoinSkipsPanicked ==
    /\ mainpc = "join"
    /\ joined < N
    /\ handle[joined + 1].kind /= "pending"
    /\ results' = IF handle[joined + 1].kind = "ok"
                  THEN Append(results, handle[joined + 1].result)
                  ELSE results
    /\ joined' = joined + 1
    /\ UNCHANGED <<tasks, max_concurrency, stagger_delay, mainpc, idx, wake, st,
                   launch, permits, rootCancelled, childCancelled, handle, invoked,
                   now,
                   lastStart, progress, others>>

\* faulty variant: the Err arm gives up the join loop (handle.await? in a fallible fn)
JoinStopsAtPanic ==
    /\ mainpc = "join"
    /\ joined < N
    /\ handle[joined + 1].kind /= "pending"
    /\ results' = Append(results, JoinResult(handle[joined + 1]))
    /\ joined' = joined + 1
    /\ mainpc' = IF handle[joined + 1].kind = "panic" THEN "done" ELSE mainpc
    /\ UNCHANGED <<tasks, max_concurrency, stagger_delay, idx, wake, st,
                   launch, permits, rootCancelled, childCancelled, handle, invoked,
                   now,
                   lastStart, progress, others>>

\* faulty variant: the join loop awaits the handles from the last to the first
JoinLastFirst ==
    /\ mainpc = "join"
    /\ joined < N
    /\ handle[N - joined].kind /= "pending"
    /\ results' = Append(results, JoinResult(handle[N - joined]))
    /\ joined' = joined + 1
    /\ UNCHANGED <<tasks, max_concurrency, stagger_delay, mainpc, idx, wake, st,
                   launch, permits, rootCancelled, childCancelled, handle, invoked,
                   now,
                   lastStart, progress, others>>

\* for handle in handles { match handle.await {..} }: the handles in spawn order
Join ==
    /\ mainpc = "join"
    /\ joined < N
    /\ handle[joined + 1].kind /= "pending"
    /\ results' = Append(results, JoinResult(handle[joined + 1]))
    /\ joined' = joined + 1
    /\ UNCHANGED <<tasks, max_concurrency, stagger_delay, mainpc, idx, wake, st,
                   launch, permits, rootCancelled, childCancelled, handle, invoked,
                   now,
                   lastStart, progress, others>>

\* the handles are exhausted: execute returns results
Return ==
    /\ mainpc = "join"
    /\ joined = N
    /\ mainpc' = "done"
    /\ UNCHANGED <<tasks, max_concurrency, stagger_delay, idx, wake, st, launch,
                   permits, rootCancelled, childCancelled, handle, results, joined,
                   invoked, now,
                   lastStart, progress, others>>

\* ------------------------------------------------------------ the environment
\* faulty variant: the cancel aborts the units that run their agent loop
RootCancelAborts ==
    /\ ~rootCancelled
    /\ mainpc /= "done"
    /\ rootCancelled' = TRUE
    /\ childCancelled' = {i \in Tasks : st[i] \notin {"Queued", "Staggering"}}
    /\ st' = [i \in Tasks |-> IF st[i] = "Running" THEN "Cancelled" ELSE st[i]]
    /\ handle' = [i \in Tasks |-> IF st[i] = "Running"
                                  THEN Joined(CancelledResult(tasks[i]))
                                  ELSE handle[i]]
    /\ permits' = permits + Cardinality({i \in Tasks : st[i] = "Running"})
    /\ UNCHANGED <<tasks, max_concurrency, stagger_delay, mainpc, idx, wake,
                   launch, results, joined, invoked, now,
                   lastStart, progress, others>>

\* AgentCancellation::cancel on the root, by the caller, while execute runs:
\* every child token created so far reports cancelled
RootCancel ==
    /\ ~rootCancelled
    /\ mainpc /= "done"
    /\ rootCancelled' = TRUE
    /\ childCancelled' = {i \in Tasks : st[i] \notin {"Queued", "Staggering"}}
    /\ UNCHANGED <<tasks, max_concurrency, stagger_delay, mainpc, idx, wake, st,
                   launch, permits, handle, results, joined, invoked, now,
                   lastStart, progress, others>>

\* the timers that are armed
Timers ==
    (IF mainpc = "sleep" THEN {wake} ELSE {})
        \cup {Deadline(i) : i \in {j \in Tasks : st[j] = "AwaitingPermit"}}

\* time passes up to the next timer; an expired timer is served first
Tick ==
    /\ Timers /= {}
    /\ \A d \in Timers : d > now
    /\ now' = Min(Timers)
    /\ UNCHANGED <<tasks, max_concurrency, stagger_delay, mainpc, idx, wake, st,
                   launch, permits, rootCancelled, childCancelled, handle, results, joined,
                   invoked,
                   lastStart, progress, others>>

\* ------------------------------------------------------------ specification
Main == StaggerSleep \/ Launch \/ Join \/ Return
Unit(i) == Acquire(i) \/ Timeout(i) \/ CheckCancelled(i) \/ StartAgent(i)
Agent(i) == AgentReturn(i) \/ AgentPanic(i)

Next ==
    \/ StaggerSleep
    \/ Launch
    \/ Join
    \/ Return
    \/ \E i \in Tasks : Acquire(i)
    \/ \E i \in Tasks : Timeout(i)
    \/ \E i \in Tasks : CheckCancelled(i)
    \/ \E i \in Tasks : StartAgent(i)
    \/ \E i \in Tasks : AgentReturn(i)
    \/ \E i \in Tasks : AgentPanic(i)
    \/ RootCancel
    \/ Tick

Spec == Init /\ [][Next]_vars

\* the runtime polls every ready task and fires every timer; the agent loop
\* (an external collaborator) and the caller's cancel are not obliged to act
FairSpec ==
    /\ Spec
    /\ WF_vars(Main)
    /\ \A i \in 1..MaxTasks : WF_vars(i \in Tasks /\ Unit(i))
    /\ WF_vars(Tick)

\* FairSpec with agent loops that all come to an end: each invocation
\* eventually returns or panics
AgentsEndSpec ==
    /\ FairSpec
    /\ \A i \in 1..MaxTasks : WF_vars(i \in Tasks /\ Agent(i))

TypeOK ==
    /\ mainpc \in {"loop", "sleep", "join", "done"}
    /\ idx \in 0..N
    /\ permits \in 0..max_concurrency
    /\ Len(results) <= N
    /\ joined \in 0..N

\* ------------------------------------------------------------ AgentCancellation
\* cancellation.rs: a cloneable wrapper around a CancellationToken.  Clones
\* share the token; child_token() hands out a child of it; reset() gives the
\* value a new token of its own.  The holder of a child token may cancel it.
MaxTokens == 4
MaxCancellations == 2

Tokens == 1..Len(tokenParent)
Cancellations == 1..Len(cancellations)
ChildTokens == 1..Len(childTokens)

\* no execute call is in progress
NoBatch ==
    /\ tasks = <<>>
    /\ max_concurrency = 0
    /\ stagger_delay = 0
    /\ mainpc = "done"
    /\ idx = 0
    /\ wake = 0
    /\ st = <<>>
    /\ launch = <<>>
    /\ permits = 0
    /\ rootCancelled = FALSE
    /\ childCancelled = {}
    /\ handle = <<>>
    /\ results = <<>>
    /\ joined = 0
    /\ invoked = <<>>
    /\ lastStart = None
    /\ progress = <<>>
    /\ now = 0

\* AgentCancellation::new(): one value holding a new token
TokenInit ==
    /\ NoBatch
    /\ NoCache
    /\ NoLocks
    /\ NoStats
    /\ NoTool
    /\ NoWrap
    /\ NoCalls
    /\ NoUpdate
    /\ NoTokenManager
    /\ NoSse
    /\ NoTransport
    /\ cancellations = <<1>>
    /\ tokenParent = <<0>>
    /\ tokenCancelled = <<FALSE>>
    /\ childTokens = <<>>
    /\ lastOp = [op |-> "new", arg |-> 0]

\* CancellationToken::cancel: the token and every token derived from it
CancelToken(t) ==
    [u \in Tokens |-> tokenCancelled[u] \/ u = t \/ tokenParent[u] = t]

\* #[derive(Clone)]: the clone holds the same token
clone(h) ==
    /\ Len(cancellations) < MaxCancellations
    /\ cancellations' = Append(cancellations, cancellations[h])
    /\ lastOp' = [op |-> "clone", arg |-> h]
    /\ UNCHANGED <<tokenParent, tokenCancelled, childTokens, notToken>>

\* pub fn cancel(&self) { self.token.cancel() }
cancel(h) ==
    /\ tokenCancelled' = CancelToken(cancellations[h])
    /\ lastOp' = [op |-> "cancel", arg |-> h]
    /\ UNCHANGED <<cancellations, tokenParent, childTokens, notToken>>

\* faulty variant: the token handed out is a clone of self.token
child_token_clone(h) ==
    /\ Len(childTokens) < MaxTokens
    /\ childTokens' = Append(childTokens,
                             [token |-> cancellations[h], of |-> cancellations[h]])
    /\ lastOp' = [op |-> "child_token", arg |-> h]
    /\ UNCHANGED <<cancellations, tokenParent, tokenCancelled, notToken>>

\* faulty variant: the token handed out is a new token, child of nobody
child_token_unlinked(h) ==
    /\ Len(tokenParent) < MaxTokens
    /\ tokenParent' = Append(tokenParent, 0)
    /\ tokenCancelled' = Append(tokenCancelled, FALSE)
    /\ childTokens' = Append(childTokens,
                             [token |-> Len(tokenParent) + 1, of |-> cancellations[h]])
    /\ lastOp' = [op |-> "child_token", arg |-> h]
    /\ UNCHANGED <<cancellations, notToken>>

\* pub fn child_token(&self) -> CancellationToken { self.token.child_token() }:
\* the child of a cancelled token is created cancelled
child_token(h) ==
    /\ Len(tokenParent) < MaxTokens
    /\ tokenParent' = Append(tokenParent, cancellations[h])
    /\ tokenCancelled' = Append(tokenCancelled, tokenCancelled[cancellations[h]])
    /\ childTokens' = Append(childTokens,
                             [token |-> Len(tokenParent) + 1, of |-> cancellations[h]])
    /\ lastOp' = [op |-> "child_token", arg |-> h]
    /\ UNCHANGED <<cancellations, notToken>>

\* faulty variant: reset clears the cancelled flag of the token in place
reset_in_place(h) ==
    /\ tokenCancelled' = [tokenCancelled EXCEPT ![cancellations[h]] = FALSE]
    /\ lastOp' = [op |-> "reset", arg |-> h]
    /\ UNCHANGED <<cancellations, tokenParent, childTokens, notToken>>

\* pub fn reset(&mut self) { self.token = CancellationToken::new() }
reset(h) ==
    /\ Len(tokenParent) < MaxTokens
    /\ tokenParent' = Append(tokenParent, 0)
    /\ tokenCancelled' = Append(tokenCancelled, FALSE)
    /\ cancellations' = [cancellations EXCEPT ![h] = Len(tokenParent) + 1]
    /\ lastOp' = [op |-> "reset", arg |-> h]
    /\ UNCHANGED <<childTokens, notToken>>

\* the holder of the k-th child token cancels it
cancel_child(k) ==
    /\ tokenCancelled' = CancelToken(childTokens[k].token)
    /\ lastOp' = [op |-> "cancel_child", arg |-> k]
    /\ UNCHANGED <<cancellations, tokenParent, childTokens, notToken>>

TokenNext ==
    \/ \E h \in Cancellations : clone(h)
    \/ \E h \in Cancellations : cancel(h)
    \/ \E h \in Cancellations : child_token(h)
    \/ \E h \in Cancellations : reset(h)
    \/ \E k \in ChildTokens : cancel_child(k)

TokenSpec == TokenInit /\ [][TokenNext]_vars

\* ------------------------------------------------------------ SharedExploreCache
\* The pool owns one cache, created with the pool; every execute call hands
\* that cache to its units.  GetOrCompute(key, computeFn): a caller finding
\* the entry returns it; a caller finding the key in flight waits for that
\* computation; otherwise the caller marks the key in flight and runs
\* computeFn, storing the value on success and storing nothing on failure.
MaxKeys == 2
MaxCallers == 3
MaxBatches == 2

Keys == 1..MaxKeys
Callers == 1..MaxCallers
NoEntry == [kind |-> "none"]
Value(b, c) == [kind |-> "value", batch |-> b, by |-> c]
Error == [kind |-> "error"]

\* SubAgentPool::new: cache: Arc::new(SharedExploreCache::new()); the first
\* execute call begins
CacheInit ==
    /\ NoBatch
    /\ NoTokens
    /\ NoLocks
    /\ NoStats
    /\ NoTool
    /\ NoWrap
    /\ NoCalls
    /\ NoUpdate
    /\ NoTokenManager
    /\ NoSse
    /\ NoTransport
    /\ batch = 1
    /\ entries = [k \in Keys |-> NoEntry]
    /\ inflight = {}
    /\ cstate = [c \in Callers |-> "idle"]
    /\ ckey = [c \in Callers |-> 0]
    /\ cresult = [c \in Callers |-> None]
    /\ computes = [k \in Keys |-> 0]
    /\ failures = [k \in Keys |-> 0]

\* the caller becomes the one computation of key k
BeginCompute(c, k) ==
    /\ inflight' = inflight \cup {k}
    /\ cstate' = [cstate EXCEPT ![c] = "computing"]
    /\ computes' = [computes EXCEPT ![k] = @ + 1]
    /\ UNCHANGED cresult

\* faulty variant: memoization only, a key in flight is computed again
GetOrComputeMemoOnly(c, k) ==
    /\ cstate[c] = "idle"
    /\ ckey' = [ckey EXCEPT ![c] = k]
    /\ IF entries[k] /= NoEntry
       THEN /\ cstate' = [cstate EXCEPT ![c] = "returned"]
            /\ cresult' = [cresult EXCEPT ![c] = Some(entries[k])]
            /\ UNCHANGED <<inflight, computes>>
       ELSE BeginCompute(c, k)
    /\ UNCHANGED <<batch, entries, failures, notCache>>

\* GetOrCompute(key, computeFn), up to its first suspension point
GetOrCompute(c, k) ==
    /\ cstate[c] = "idle"
    /\ ckey' = [ckey EXCEPT ![c] = k]
    /\ IF entries[k] /= NoEntry
       THEN /\ cstate' = [cstate EXCEPT ![c] = "returned"]
            /\ cresult' = [cresult EXCEPT ![c] = Some(entries[k])]
            /\ UNCHANGED <<inflight, computes>>
       ELSE IF k \in inflight
       THEN /\ cstate' = [cstate EXCEPT ![c] = "waiting"]
            /\ UNCHANGED <<inflight, computes, cresult>>
       ELSE BeginCompute(c, k)
    /\ UNCHANGED <<batch, entries, failures, notCache>>

\* computeFn returns a value: it is stored and returned
ComputeOk(c) ==
    /\ cstate[c] = "computing"
    /\ entries' = [entries EXCEPT ![ckey[c]] = Value(batch, c)]
    /\ inflight' = inflight \ {ckey[c]}
    /\ cstate' = [cstate EXCEPT ![c] = "returned"]
    /\ cresult' = [cresult EXCEPT ![c] = Some(Value(batch, c))]
    /\ UNCHANGED <<batch, ckey, computes, failures, notCache>>

\* faulty variant: the failure is stored as the key's entry
ComputeFailCached(c) ==
    /\ cstate[c] = "computing"
    /\ entries' = [entries EXCEPT ![ckey[c]] = Error]
    /\ inflight' = inflight \ {ckey[c]}
    /\ failures' = [failures EXCEPT ![ckey[c]] = @ + 1]
    /\ cstate' = [cstate EXCEPT ![c] = "returned"]
    /\ cresult' = [cresult EXCEPT ![c] = Some(Error)]
    /\ UNCHANGED <<batch, ckey, computes, notCache>>

\* faulty variant: a failing computation leaves its key marked in flight
ComputeFailStaysInFlight(c) ==
    /\ cstate[c] = "computing"
    /\ failures' = [failures EXCEPT ![ckey[c]] = @ + 1]
    /\ cstate' = [cstate EXCEPT ![c] = "returned"]
    /\ cresult' = [cresult EXCEPT ![c] = Some(Error)]
    /\ UNCHANGED <<batch, entries, inflight, ckey, computes, notCache>>

\* computeFn fails: nothing is stored, the error is returned
ComputeFail(c) ==
    /\ cstate[c] = "computing"
    /\ inflight' = inflight \ {ckey[c]}
    /\ failures' = [failures EXCEPT ![ckey[c]] = @ + 1]
    /\ cstate' = [cstate EXCEPT ![c] = "returned"]
    /\ cresult' = [cresult EXCEPT ![c] = Some(Error)]
    /\ UNCHANGED <<batch, entries, ckey, computes, notCache>>

\* the computation a caller waited for is over: the waiter takes the value,
\* or, finding none, computes the key itself
WaiterWakes(c) ==
    /\ cstate[c] = "waiting"
    /\ ckey[c] \notin inflight
    /\ IF entries[ckey[c]] /= NoEntry
       THEN /\ cstate' = [cstate EXCEPT ![c] = "returned"]
            /\ cresult' = [cresult EXCEPT ![c] = Some(entries[ckey[c]])]
            /\ UNCHANGED <<inflight, computes>>
       ELSE BeginCompute(c, ckey[c])
    /\ UNCHANGED <<batch, entries, ckey, failures, notCache>>

\* the execute call returns and the next call on the same pool begins: its
\* units get self.cache.clone(), the one cache of the pool
NextExecute ==
    /\ batch < MaxBatches
    /\ \A c \in Callers : cstate[c] \in {"idle", "returned"}
    /\ batch' = batch + 1
    /\ cstate' = [c \in Callers |-> "idle"]
    /\ ckey' = [c \in Callers |-> 0]
    /\ cresult' = [c \in Callers |-> None]
    /\ computes' = [k \in Keys |-> 0]
    /\ failures' = [k \in Keys |-> 0]
    /\ UNCHANGED <<entries, inflight, notCache>>

CacheNext ==
    \/ \E c \in Callers, k \in Keys : GetOrCompute(c, k)
    \/ \E c \in Callers : ComputeOk(c)
    \/ \E c \in Callers : ComputeFail(c)
    \/ \E c \in Callers : WaiterWakes(c)
    \/ NextExecute

CacheSpec == CacheInit /\ [][CacheNext]_vars

\* CacheSpec with computations that all come to an end and waiters that are
\* woken when the computation they wait for is over
FairCacheSpec ==
    /\ CacheSpec
    /\ \A c \in Callers : WF_vars(ComputeOk(c) \/ ComputeFail(c))
    /\ \A c \in Callers : WF_vars(WaiterWakes(c))

\* ------------------------------------------------------------ SharedBuildContext: file locks
\* WithFileLock(path, fn): find the lock of the path in fileLocks, creating
\* it on first use (the map access is synchronized); take the lock, counting
\* a contention when it is found held; run fn; release the lock however fn
\* ends.
MaxBuilders == 2
MaxPaths == 2
MaxLockCalls == 2

Builders == 1..MaxBuilders
Paths == 1..MaxPaths
Locks == 1..Len(lockHolder)

\* SharedBuildContext::new()
LockInit ==
    /\ NoBatch
    /\ NoTokens
    /\ NoCache
    /\ NoStats
    /\ NoTool
    /\ NoWrap
    /\ NoCalls
    /\ NoUpdate
    /\ NoTokenManager
    /\ NoSse
    /\ NoTransport
    /\ fileLocks = [p \in Paths |-> 0]
    /\ lockHolder = <<>>
    /\ bstate = [b \in Builders |-> "idle"]
    /\ bpath = [b \in Builders |-> 0]
    /\ myLock = [b \in Builders |-> 0]
    /\ lockCalls = [b \in Builders |-> 0]
    /\ fnResult = [b \in Builders |-> "none"]
    /\ lockContentions = 0

\* faulty variant: the map access is not synchronized, a caller that saw no
\* lock inserts its own
FindOrCreateLockUnsynchronized(b, p) ==
    /\ bstate[b] = "idle"
    /\ lockCalls[b] < MaxLockCalls
    /\ lockHolder' = Append(lockHolder, 0)
    /\ fileLocks' = [fileLocks EXCEPT ![p] = Len(lockHolder) + 1]
    /\ myLock' = [myLock EXCEPT ![b] = Len(lockHolder) + 1]
    /\ bstate' = [bstate EXCEPT ![b] = "found"]
    /\ bpath' = [bpath EXCEPT ![b] = p]
    /\ lockCalls' = [lockCalls EXCEPT ![b] = @ + 1]
    /\ UNCHANGED <<fnResult, lockContentions, notLock>>

\* WithFileLock: the lock of the path, created on first use
FindOrCreateLock(b, p) ==
    /\ bstate[b] = "idle"
    /\ lockCalls[b] < MaxLockCalls
    /\ IF fileLocks[p] = 0
       THEN /\ lockHolder' = Append(lockHolder, 0)
            /\ fileLocks' = [fileLocks EXCEPT ![p] = Len(lockHolder) + 1]
            /\ myLock' = [myLock EXCEPT ![b] = Len(lockHolder) + 1]
       ELSE /\ myLock' = [myLock EXCEPT ![b] = fileLocks[p]]
            /\ UNCHANGED <<lockHolder, fileLocks>>
    /\ bstate' = [bstate EXCEPT ![b] = "found"]
    /\ bpath' = [bpath EXCEPT ![b] = p]
    /\ lockCalls' = [lockCalls EXCEPT ![b] = @ + 1]
    /\ UNCHANGED <<fnResult, lockContentions, notLock>>

\* WithFileLock: the acquisition; a lock found held counts as a contention
\* and the caller waits for it
TryLock(b) ==
    /\ bstate[b] = "found"
    /\ IF lockHolder[myLock[b]] = 0
       THEN /\ lockHolder' = [lockHolder EXCEPT ![myLock[b]] = b]
            /\ bstate' = [bstate EXCEPT ![b] = "critical"]
            /\ UNCHANGED lockContentions
       ELSE /\ lockContentions' = lockContentions + 1
            /\ bstate' = [bstate EXCEPT ![b] = "waiting"]
            /\ UNCHANGED lockHolder
    /\ UNCHANGED <<fileLocks, bpath, myLock, lockCalls, fnResult, notLock>>

\* faulty variant: the waiter counts a second contention when it gets the lock
LockAfterWaitCounted(b) ==
    /\ bstate[b] = "waiting"
    /\ lockHolder[myLock[b]] = 0
    /\ lockHolder' = [lockHolder EXCEPT ![myLock[b]] = b]
    /\ bstate' = [bstate EXCEPT ![b] = "critical"]
    /\ lockContentions' = lockContentions + 1
    /\ UNCHANGED <<fileLocks, bpath, myLock, lockCalls, fnResult, notLock>>

\* WithFileLock: the waiter gets the lock once it is free
LockAfterWait(b) ==
    /\ bstate[b] = "waiting"
    /\ lockHolder[myLock[b]] = 0
    /\ lockHolder' = [lockHolder EXCEPT ![myLock[b]] = b]
    /\ bstate' = [bstate EXCEPT ![b] = "critical"]
    /\ UNCHANGED <<fileLocks, bpath, myLock, lockCalls, fnResult, lockContentions,
                   notLock>>

\* faulty variant: the release sits after fn on the success path only
FnReturnsKeepingLockOnFailure(b) ==
    /\ bstate[b] = "critical"
    /\ \E ok \in BOOLEAN :
          /\ fnResult' = [fnResult EXCEPT ![b] = IF ok THEN "ok" ELSE "failed"]
          /\ lockHolder' = IF ok THEN [lockHolder EXCEPT ![myLock[b]] = 0]
                           ELSE lockHolder
    /\ bstate' = [bstate EXCEPT ![b] = "idle"]
    /\ UNCHANGED <<fileLocks, bpath, myLock, lockCalls, lockContentions, notLock>>

\* WithFileLock: fn returns or fails; the lock is released either way
FnReturns(b) ==
    /\ bstate[b] = "critical"
    /\ \E ok \in BOOLEAN :
          fnResult' = [fnResult EXCEPT ![b] = IF ok THEN "ok" ELSE "failed"]
    /\ lockHolder' = [lockHolder EXCEPT ![myLock[b]] = 0]
    /\ bstate' = [bstate EXCEPT ![b] = "idle"]
    /\ UNCHANGED <<fileLocks, bpath, myLock, lockCalls, lockContentions, notLock>>

LockNext ==
    \/ \E b \in Builders, p \in Paths : FindOrCreateLock(b, p)
    \/ \E b \in Builders : TryLock(b)
    \/ \E b \in Builders : LockAfterWait(b)
    \/ \E b \in Builders : FnReturns(b)

LockSpec == LockInit /\ [][LockNext]_vars

\* ------------------------------------------------------------ SharedBuildContext: statistics
\* RecordChange(linesAdded, linesRemoved, fileModified) folds one edit into
\* the counters, each counter by an atomic add; builders call it while they
\* run and are joined afterwards.
MaxRecords == 2

\* the edits a builder may report
Changes ==
    {[added |-> 3, removed |-> 1, modified |-> TRUE],
     [added |-> 0, removed |-> 2, modified |-> TRUE],
     [added |-> 0, removed |-> 0, modified |-> FALSE]}
NoChange == [added |-> 0, removed |-> 0, modified |-> FALSE]

StatsInit ==
    /\ NoBatch
    /\ NoTokens
    /\ NoCache
    /\ NoLocks
    /\ NoTool
    /\ NoWrap
    /\ NoCalls
    /\ NoUpdate
    /\ NoTokenManager
    /\ NoSse
    /\ NoTransport
    /\ linesAdded = 0
    /\ linesRemoved = 0
    /\ filesModified = 0
    /\ rpc = [b \in Builders |-> "idle"]
    /\ rchange = [b \in Builders |-> NoChange]
    /\ recCalls = [b \in Builders |-> 0]
    /\ bjoined = [b \in Builders |-> FALSE]
    /\ argsAdded = 0
    /\ argsRemoved = 0
    /\ argsModified = 0

\* faulty variant: the counter is loaded and stored, not added to atomically:
\* the store may carry a value loaded before another builder's add
RecordChangeStoresStale(b, ch) ==
    /\ rpc[b] = "idle"
    /\ ~bjoined[b]
    /\ recCalls[b] < MaxRecords
    /\ recCalls' = [recCalls EXCEPT ![b] = @ + 1]
    /\ rchange' = [rchange EXCEPT ![b] = ch]
    /\ argsAdded' = argsAdded + ch.added
    /\ argsRemoved' = argsRemoved + ch.removed
    /\ argsModified' = argsModified + (IF ch.modified THEN 1 ELSE 0)
    /\ \E seen \in 0..linesAdded : linesAdded' = seen + ch.added
    /\ rpc' = [rpc EXCEPT ![b] = "added"]
    /\ UNCHANGED <<linesRemoved, filesModified, bjoined, notStats>>

\* RecordChange: the call, and its add to linesAdded
RecordChange(b, ch) ==
    /\ rpc[b] = "idle"
    /\ ~bjoined[b]
    /\ recCalls[b] < MaxRecords
    /\ recCalls' = [recCalls EXCEPT ![b] = @ + 1]
    /\ rchange' = [rchange EXCEPT ![b] = ch]
    /\ argsAdded' = argsAdded + ch.added
    /\ argsRemoved' = argsRemoved + ch.removed
    /\ argsModified' = argsModified + (IF ch.modified THEN 1 ELSE 0)
    /\ linesAdded' = linesAdded + ch.added
    /\ rpc' = [rpc EXCEPT ![b] = "added"]
    /\ UNCHANGED <<linesRemoved, filesModified, bjoined, notStats>>

\* RecordChange: its add to linesRemoved
AddRemoved(b) ==
    /\ rpc[b] = "added"
    /\ linesRemoved' = linesRemoved + rchange[b].removed
    /\ rpc' = [rpc EXCEPT ![b] = "removed"]
    /\ UNCHANGED <<linesAdded, filesModified, rchange, recCalls, bjoined, argsAdded,
                   argsRemoved, argsModified, notStats>>

\* RecordChange: its add to filesModified, when the file was modified
AddModified(b) ==
    /\ rpc[b] = "removed"
    /\ filesModified' = filesModified + (IF rchange[b].modified THEN 1 ELSE 0)
    /\ rpc' = [rpc EXCEPT ![b] = "idle"]
    /\ UNCHANGED <<linesAdded, linesRemoved, rchange, recCalls, bjoined, argsAdded,
                   argsRemoved, argsModified, notStats>>

\* the builder's unit ends and is joined
BuilderJoined(b) ==
    /\ rpc[b] = "idle"
    /\ ~bjoined[b]
    /\ bjoined' = [bjoined EXCEPT ![b] = TRUE]
    /\ UNCHANGED <<linesAdded, linesRemoved, filesModified, rpc, rchange, recCalls,
                   argsAdded, argsRemoved, argsModified, notStats>>

StatsNext ==
    \/ \E b \in Builders, ch \in Changes : RecordChange(b, ch)
    \/ \E b \in Builders : AddRemoved(b)
    \/ \E b \in Builders : AddModified(b)
    \/ \E b \in Builders : BuilderJoined(b)

StatsSpec == StatsInit /\ [][StatsNext]_vars

\* ------------------------------------------------------------ build tool
\* BuildTool::execute with execute_builders in line: the context, the
\* conventions, the tasks, the units, the join loop, the two reads of the
\* statistics and the errors list.
MaxComponents == 2

ToolUnits == 1..Len(toolTasks)

ToolInit ==
    /\ toolpc = "context"
    /\ conventions \in {None, Some("conventions")}
    /\ components \in {None} \cup {Some(n) : n \in 0..MaxComponents}
    /\ ctxConventions = None
    /\ toolTasks = <<>>
    /\ unitSt = <<>>
    /\ unitHandle = <<>>
    /\ toolResults = <<>>
    /\ errors = <<>>
    /\ NoBatch
    /\ NoTokens
    /\ NoCache
    /\ NoLocks
    /\ NoStats
    /\ NoWrap
    /\ NoCalls
    /\ NoUpdate
    /\ NoTokenManager
    /\ NoSse
    /\ NoTransport

\* let context = Arc::new(SharedBuildContext::new())
NewContext ==
    /\ toolpc = "context"
    /\ toolpc' = "conventions"
    /\ ctxConventions' = None
    /\ UNCHANGED <<conventions, components, toolTasks, unitSt, unitHandle,
                   toolResults, errors, notTool>>

\* if let Some(conventions) = &params.conventions { context.set_conventions(..) }
SetConventions ==
    /\ toolpc = "conventions"
    /\ toolpc' = "tasks"
    /\ ctxConventions' = IF conventions /= None THEN conventions ELSE ctxConventions
    /\ UNCHANGED <<conventions, components, toolTasks, unitSt, unitHandle,
                   toolResults, errors, notTool>>

\* the tasks: builder-<i> per component, or the single builder-main
BuildTasks ==
    /\ toolpc = "tasks"
    /\ toolTasks' = IF components /= None
                    THEN [i \in 1..components[1] |-> TaskId(i)]
                    ELSE <<"builder-main">>
    /\ unitSt' = [i \in 1..Len(toolTasks') |-> "unspawned"]
    /\ unitHandle' = [i \in 1..Len(toolTasks') |-> Pending]
    /\ toolpc' = IF toolTasks' = <<>> THEN "join" ELSE "spawn"
    /\ UNCHANGED <<conventions, components, ctxConventions, toolResults, errors,
                   notTool>>

\* execute_builders: one iteration of its spawn loop
SpawnUnit ==
    /\ toolpc = "spawn"
    /\ \E i \in ToolUnits :
          /\ unitSt[i] = "unspawned"
          /\ \A j \in 1..(i - 1) : unitSt[j] /= "unspawned"
          /\ unitSt' = [unitSt EXCEPT ![i] = "running"]
          /\ toolpc' = IF i = Len(toolTasks) THEN "join" ELSE "spawn"
    /\ UNCHANGED <<conventions, components, ctxConventions, toolTasks, unitHandle,
                   toolResults, errors, notTool>>

\* what a unit of execute_builders can end with
UnitOutcomes(id) ==
    {Joined(AgentResult(id, TRUE)), Joined(AgentResult(id, FALSE)),
     Joined(TimeoutResult(id)), Joined(CancelledResult(id)), Panic}

\* a unit of execute_builders ends: its handle resolves
UnitEnds(i) ==
    /\ unitSt[i] = "running"
    /\ \E h \in UnitOutcomes(toolTasks[i]) :
          unitHandle' = [unitHandle EXCEPT ![i] = h]
    /\ unitSt' = [unitSt EXCEPT ![i] = "ended"]
    /\ UNCHANGED <<toolpc, conventions, components, ctxConventions, toolTasks,
                   toolResults, errors, notTool>>

\* execute_builders: one iteration of its join loop
JoinUnit ==
    /\ toolpc = "join"
    /\ Len(toolResults) < Len(toolTasks)
    /\ unitHandle[Len(toolResults) + 1] /= Pending
    /\ toolResults' = Append(toolResults, JoinResult(unitHandle[Len(toolResults) + 1]))
    /\ UNCHANGED <<toolpc, conventions, components, ctxConventions, toolTasks,
                   unitSt, unitHandle, errors, notTool>>

\* faulty variant: the statistics are read as soon as the units are spawned
PoolStatsBeforeJoin ==
    /\ toolpc = "join"
    /\ toolpc' = "returned"
    /\ UNCHANGED <<conventions, components, ctxConventions, toolTasks, unitSt,
                   unitHandle, toolResults, errors, notTool>>

\* execute_builders: context.stats() after the join loop, and the return
PoolStats ==
    /\ toolpc = "join"
    /\ Len(toolResults) = Len(toolTasks)
    /\ toolpc' = "returned"
    /\ UNCHANGED <<conventions, components, ctxConventions, toolTasks, unitSt,
                   unitHandle, toolResults, errors, notTool>>

\* let stats = context.stats()
ToolStats ==
    /\ toolpc = "returned"
    /\ toolpc' = "format"
    /\ UNCHANGED <<conventions, components, ctxConventions, toolTasks, unitSt,
                   unitHandle, toolResults, errors, notTool>>

\* the errors the results loop collects: "<task_id>: <error>" per failed result
RECURSIVE CollectErrors(_)
CollectErrors(rs) ==
    IF rs = <<>> THEN <<>>
    ELSE LET result == Head(rs)
         IN  (IF ~result.success /\ result.error /= None
              THEN <<result.task_id \o ": " \o result.error[1]>>
              ELSE <<>>) \o CollectErrors(Tail(rs))

\* the results loop and the tool's return
FormatResults ==
    /\ toolpc = "format"
    /\ errors' = CollectErrors(toolResults)
    /\ toolpc' = "done"
    /\ UNCHANGED <<conventions, components, ctxConventions, toolTasks, unitSt,
                   unitHandle, toolResults, notTool>>

ToolNext ==
    \/ NewContext
    \/ SetConventions
    \/ BuildTasks
    \/ SpawnUnit
    \/ \E i \in ToolUnits : UnitEnds(i)
    \/ JoinUnit
    \/ PoolStats
    \/ ToolStats
    \/ FormatResults

ToolSpec == ToolInit /\ [][ToolNext]_vars

\* ------------------------------------------------------------ text wrapping
\* wrap_line and count_wrapped_lines of tui/utils/text.rs, on lines over a
\* letter, a space and a character of display width 2.
MaxLineLen == 4
MaxWidth == 3

Chars == {"a", " ", "W"}
Lines == UNION {[1..n -> Chars] : n \in 0..MaxLineLen}

\* UnicodeWidthChar::width(c).unwrap_or(0)
CharWidth(c) == IF c = "W" THEN 2 ELSE 1

\* UnicodeWidthStr::width(s)
RECURSIVE display_width(_)
display_width(s) ==
    IF s = <<>> THEN 0 ELSE CharWidth(Head(s)) + display_width(Tail(s))

\* str::split_whitespace: the maximal runs of characters that are not spaces;
\* word is the run being read
RECURSIVE SplitFrom(_, _)
SplitFrom(s, word) ==
    IF s = <<>> THEN (IF word = <<>> THEN <<>> ELSE <<word>>)
    ELSE IF Head(s) = " "
         THEN (IF word = <<>> THEN <<>> ELSE <<word>>) \o SplitFrom(Tail(s), <<>>)
         ELSE SplitFrom(Tail(s), Append(word, Head(s)))

split_whitespace(s) == SplitFrom(s, <<>>)

\* wrap_line: its loop over the words and the push of the last line
RECURSIVE WrapWords(_, _, _, _, _)
WrapWords(words, result, current, current_width, w) ==
    IF words = <<>>
    THEN (IF current /= <<>> THEN Append(result, current) ELSE result)
    ELSE LET word == Head(words)
             word_width == display_width(word)
         IN  IF current = <<>>
             THEN WrapWords(Tail(words), result, word, word_width, w)
             ELSE IF current_width + 1 + word_width <= w
             THEN WrapWords(Tail(words), result, current \o <<" ">> \o word,
                            current_width + 1 + word_width, w)
             ELSE WrapWords(Tail(words), Append(result, current), word, word_width, w)

\* wrap_line: the force-break of one line by characters
RECURSIVE BreakChars(_, _, _, _, _)
BreakChars(s, chunks, chunk, chunk_width, w) ==
    IF s = <<>>
    THEN (IF chunk /= <<>> THEN Append(chunks, chunk) ELSE chunks)
    ELSE LET c == Head(s)
             char_width == CharWidth(c)
         IN  IF chunk_width + char_width > w /\ chunk /= <<>>
             THEN BreakChars(Tail(s), Append(chunks, chunk), <<c>>, char_width, w)
             ELSE BreakChars(Tail(s), chunks, Append(chunk, c),
                             chunk_width + char_width, w)

\* wrap_line: the flat_map over the wrapped lines
RECURSIVE FlatMapBreak(_, _)
FlatMapBreak(result, w) ==
    IF result = <<>> THEN <<>>
    ELSE (IF display_width(Head(result)) > w
          THEN BreakChars(Head(result), <<>>, <<>>, 0, w)
          ELSE <<Head(result)>>) \o FlatMapBreak(Tail(result), w)

wrap_line(l, w) ==
    IF w = 0 THEN <<l>>
    ELSE IF display_width(l) <= w THEN <<l>>
    ELSE FlatMapBreak(WrapWords(split_whitespace(l), <<>>, <<>>, 0, w), w)

\* usize::div_ceil
div_ceil(a, b) == (a + b - 1) \div b

\* count_wrapped_lines: the lines one wrapped line of this width counts for
LinesOf(current_width, w) ==
    IF current_width > w THEN div_ceil(current_width, w) ELSE 1

\* count_wrapped_lines: its loop over the words and the count of the last line
RECURSIVE CountWords(_, _, _, _)
CountWords(words, line_count, current_width, w) ==
    IF words = <<>>
    THEN (IF current_width > 0 THEN line_count + LinesOf(current_width, w)
          ELSE line_count)
    ELSE LET word_width == display_width(Head(words))
         IN  IF current_width = 0
             THEN CountWords(Tail(words), line_count, word_width, w)
             ELSE IF current_width + 1 + word_width <= w
             THEN CountWords(Tail(words), line_count, current_width + 1 + word_width, w)
             ELSE CountWords(Tail(words), line_count + LinesOf(current_width, w),
                             word_width, w)

Max(a, b) == IF a >= b THEN a ELSE b

count_wrapped_lines(l, w) ==
    IF w = 0 \/ l = <<>> THEN 1
    ELSE IF display_width(l) <= w THEN 1
    ELSE Max(CountWords(split_whitespace(l), 0, 0, w), 1)

WrapInit ==
    /\ line \in Lines
    /\ max_width \in 0..MaxWidth
    /\ wrapped = None
    /\ counted = None
    /\ NoBatch
    /\ NoTokens
    /\ NoCache
    /\ NoLocks
    /\ NoStats
    /\ NoTool
    /\ NoCalls
    /\ NoUpdate
    /\ NoTokenManager
    /\ NoSse
    /\ NoTransport

\* a call of wrap_line(line, max_width)
WrapLine ==
    /\ wrapped = None
    /\ wrapped' = Some(wrap_line(line, max_width))
    /\ UNCHANGED <<line, max_width, counted, notWrap>>

\* a call of count_wrapped_lines(line, max_width)
CountWrappedLines ==
    /\ counted = None
    /\ counted' = Some(count_wrapped_lines(line, max_width))
    /\ UNCHANGED <<line, max_width, wrapped, notWrap>>

WrapNext ==
    \/ WrapLine
    \/ CountWrappedLines

WrapSpec == WrapInit /\ [][WrapNext]_vars

\* ------------------------------------------------------------ concurrent calls
\* execute and execute_builders take &self: several calls can run on one pool
\* at the same time.  Each call creates its semaphore; its units wait for a
\* permit of that semaphore, run and give the permit back.
MaxCalls == 2
MaxCallTasks == 2

Calls == 1..MaxCalls
CallTasks == 1..MaxCallTasks

CallsInit ==
    /\ poolMax \in 0..MaxConcurrency
    /\ callpc = [c \in Calls |-> "idle"]
    /\ sem = [c \in Calls |-> 0]
    /\ unit = [c \in Calls |-> [t \in CallTasks |-> "unspawned"]]
    /\ NoBatch
    /\ NoTokens
    /\ NoCache
    /\ NoLocks
    /\ NoStats
    /\ NoTool
    /\ NoWrap
    /\ NoUpdate
    /\ NoTokenManager
    /\ NoSse
    /\ NoTransport

\* the units of call c that hold a permit
RunningIn(c) == {t \in CallTasks : unit[c][t] = "running"}

\* let semaphore = Arc::new(Semaphore::new(self.max_concurrency)), and the
\* spawn loop: every unit of the call waits on that semaphore
CallExecute(c) ==
    /\ callpc[c] = "idle"
    /\ callpc' = [callpc EXCEPT ![c] = "running"]
    /\ sem' = [sem EXCEPT ![c] = poolMax]
    /\ unit' = [unit EXCEPT ![c] = [t \in CallTasks |-> "waiting"]]
    /\ UNCHANGED <<poolMax, notCalls>>

\* faulty variant: the units of every call take their permits from the
\* semaphore of the first call, as if the pool owned one semaphore
UnitAcquireShared(c, t) ==
    /\ unit[c][t] = "waiting"
    /\ callpc[1] /= "idle"
    /\ sem[1] > 0
    /\ sem' = [sem EXCEPT ![1] = @ - 1]
    /\ unit' = [unit EXCEPT ![c][t] = "running"]
    /\ UNCHANGED <<poolMax, callpc, notCalls>>

\* sem.acquire() of a unit of call c resolves: sem is the call's semaphore
UnitAcquire(c, t) ==
    /\ unit[c][t] = "waiting"
    /\ sem[c] > 0
    /\ sem' = [sem EXCEPT ![c] = @ - 1]
    /\ unit' = [unit EXCEPT ![c][t] = "running"]
    /\ UNCHANGED <<poolMax, callpc, notCalls>>

\* the wait of a unit for its permit times out
UnitTimeout(c, t) ==
    /\ unit[c][t] = "waiting"
    /\ sem[c] = 0
    /\ unit' = [unit EXCEPT ![c][t] = "ended"]
    /\ UNCHANGED <<poolMax, callpc, sem, notCalls>>

\* the unit returns (cancelled, or with the agent loop's result) or panics:
\* its permit goes back to the semaphore it came from
UnitRelease(c, t) ==
    /\ unit[c][t] = "running"
    /\ unit' = [unit EXCEPT ![c][t] = "ended"]
    /\ sem' = [sem EXCEPT ![c] = @ + 1]
    /\ UNCHANGED <<poolMax, callpc, notCalls>>

\* the join loop of call c has awaited every handle: the call returns
CallReturn(c) ==
    /\ callpc[c] = "running"
    /\ \A t \in CallTasks : unit[c][t] = "ended"
    /\ callpc' = [callpc EXCEPT ![c] = "returned"]
    /\ UNCHANGED <<poolMax, sem, unit, notCalls>>

CallsNext ==
    \/ \E c \in Calls : CallExecute(c)
    \/ \E c \in Calls, t \in CallTasks : UnitAcquire(c, t)
    \/ \E c \in Calls, t \in CallTasks : UnitTimeout(c, t)
    \/ \E c \in Calls, t \in CallTasks : UnitRelease(c, t)
    \/ \E c \in Calls : CallReturn(c)

CallsSpec == CallsInit /\ [][CallsNext]_vars

\* ------------------------------------------------------------ update check
\* start_update_check spawns a background task that reports on an unbounded
\* channel; poll_update_status drains the channel on the UI thread.  A task
\* holds the sender of the channel created with it: the receiver is
\* [of |-> the task, queue |-> the statuses sent and not yet received].
MaxChecks == 2
MaxQueue == 3

Ended == {"up_to_date", "ready", "download_error", "check_failed"}

\* the background tasks that have not ended
InFlight == {k \in 1..Len(checkTask) : checkTask[k] \notin Ended}

UpdateInit ==
    /\ channel = None
    /\ update_status = None
    /\ checkTask = <<>>
    /\ polled = FALSE
    /\ NoBatch
    /\ NoTokens
    /\ NoCache
    /\ NoLocks
    /\ NoStats
    /\ NoTool
    /\ NoWrap
    /\ NoCalls
    /\ NoTokenManager
    /\ NoSse
    /\ NoTransport

\* matches!(self.update_status, Some(UpdateStatus::Ready { .. }))
IsReady == update_status = Some("Ready")

\* start_update_check gets past its two early returns
StartsCheck == channel = None /\ ~IsReady

\* start_update_check
start_update_check ==
    /\ Len(checkTask) < MaxChecks
    /\ IF StartsCheck
       THEN /\ channel' = Some([of |-> Len(checkTask) + 1, queue |-> <<>>])
            /\ checkTask' = Append(checkTask, "spawned")
            /\ polled' = FALSE
       ELSE UNCHANGED <<channel, checkTask, polled>>
    /\ UNCHANGED <<update_status, notUpdate>>

\* let _ = tx.send(status): the status is queued while the receiver of the
\* task's channel exists
Send(k, status) ==
    IF channel /= None /\ channel[1].of = k
    THEN Some([channel[1] EXCEPT !.queue = Append(@, status)])
    ELSE channel

\* the task's step from state from to state to, sending status if it is one
TaskStep(k, from, to, status) ==
    /\ checkTask[k] = from
    /\ channel /= None /\ channel[1].of = k => Len(channel[1].queue) < MaxQueue
    /\ checkTask' = [checkTask EXCEPT ![k] = to]
    /\ channel' = IF status = None THEN channel ELSE Send(k, status[1])
    /\ UNCHANGED <<update_status, polled, notUpdate>>

\* let _ = tx.send(UpdateStatus::Checking)
SendChecking(k) == TaskStep(k, "spawned", "checking", Some("Checking"))

\* Ok(None) => send UpToDate, and the task ends
CheckUpToDate(k) == TaskStep(k, "checking", "up_to_date", Some("UpToDate"))

\* Err(e) => only a debug log: the task ends without a final status
CheckFailed(k) == TaskStep(k, "checking", "check_failed", None)

\* Ok(Some(info)) => send Available, then download_update
CheckAvailable(k) == TaskStep(k, "checking", "downloading", Some("Available"))

\* download_update reports its progress
DownloadProgress(k) == TaskStep(k, "downloading", "downloading", Some("Downloading"))

\* download_update sends Ready and returns Ok: the task ends
DownloadReady(k) == TaskStep(k, "downloading", "ready", Some("Ready"))

\* download_update returns Err: send Error, and the task ends
DownloadError(k) == TaskStep(k, "downloading", "download_error", Some("Error"))

\* poll_update_status: whether one of the drained statuses sets clear_channel
ClearsChannel(statuses) ==
    \E j \in 1..Len(statuses) : statuses[j] \in {"UpToDate", "Ready", "Error"}

\* poll_update_status: drain the channel, handle each status, keep the last
\* one in self.update_status, drop the receiver on a final status
poll_update_status ==
    /\ polled' = (checkTask /= <<>> /\ InFlight = {})
    /\ IF channel = None
       THEN UNCHANGED <<channel, update_status>>
       ELSE LET statuses == channel[1].queue
            IN  /\ update_status' = IF statuses = <<>> THEN update_status
                                    ELSE Some(statuses[Len(statuses)])
                /\ channel' = IF ClearsChannel(statuses) THEN None
                              ELSE Some([channel[1] EXCEPT !.queue = <<>>])
    /\ UNCHANGED <<checkTask, notUpdate>>

UpdateNext ==
    \/ start_update_check
    \/ poll_update_status
    \/ \E k \in 1..Len(checkTask) : SendChecking(k)
    \/ \E k \in 1..Len(checkTask) : CheckUpToDate(k)
    \/ \E k \in 1..Len(checkTask) : CheckFailed(k)
    \/ \E k \in 1..Len(checkTask) : CheckAvailable(k)
    \/ \E k \in 1..Len(checkTask) : DownloadProgress(k)
    \/ \E k \in 1..Len(checkTask) : DownloadReady(k)
    \/ \E k \in 1..Len(checkTask) : DownloadError(k)

UpdateSpec == UpdateInit /\ [][UpdateNext]_vars

\* ------------------------------------------------------------ token manager
\* get_valid_token takes the write lock of self.tokens and holds it to its
\* return: over the expiry test, the refresh request, the save to disk and
\* the update of the tokens in memory.  Time is in seconds.
MaxGetters == 2
MaxRefreshes == 2
MaxClock == 2

ExpiryBuffer == 300

Getters == 1..MaxGetters

\* expires_in of a TokenResponse: below the buffer, and one second above it
ExpiresIn == {ExpiryBuffer - 1, ExpiryBuffer + 1}

\* the access token the n-th refresh request returns; 0 is the one on file
AccessToken(n) == "access-" \o ToString(n)

Tokens0(exp) == [access_token |-> AccessToken(0), expires_at |-> exp]

\* impl From<TokenResponse> for StoredTokens
StoredTokensFrom(access, expires_in) ==
    [access_token |-> access, expires_at |-> clock + expires_in - ExpiryBuffer]

Ok(v) == [ok |-> TRUE, value |-> v]
Err(e) == [ok |-> FALSE, value |-> e]

\* TokenManager::new: the tokens on file, if any, are loaded
TokenManagerInit ==
    /\ \E t \in {None, Some(Tokens0(0)), Some(Tokens0(1))} : mem = t /\ disk = t
    /\ guard = 0
    /\ gpc = [c \in Getters |-> "idle"]
    /\ gres = [c \in Getters |-> None]
    /\ behind = [c \in Getters |-> 0]
    /\ stored = [c \in Getters |-> None]
    /\ refreshes = 0
    /\ clock = 0
    /\ NoBatch
    /\ NoTokens
    /\ NoCache
    /\ NoLocks
    /\ NoStats
    /\ NoTool
    /\ NoWrap
    /\ NoCalls
    /\ NoUpdate
    /\ NoSse
    /\ NoTransport

\* a caller enters get_valid_token and asks for the write lock
CallGetValidToken(c) ==
    /\ gpc[c] = "idle"
    /\ gpc' = [gpc EXCEPT ![c] = "locking"]
    /\ gres' = [gres EXCEPT ![c] = None]
    /\ behind' = [behind EXCEPT ![c] = guard]
    /\ UNCHANGED <<mem, disk, guard, stored, refreshes, clock, notTM>>

\* the function returns r: tokens_guard is dropped
ReturnWith(c, r) ==
    /\ gpc' = [gpc EXCEPT ![c] = "returned"]
    /\ gres' = [gres EXCEPT ![c] = Some(r)]
    /\ guard' = 0

\* faulty variant: the expiry test runs under a lock that is given up before
\* the refresh request
WriteLockedOnlyForTest(c) ==
    /\ gpc[c] = "locking"
    /\ guard = 0
    /\ IF mem = None
       THEN ReturnWith(c, Err("No tokens available. Please authenticate first."))
            /\ UNCHANGED refreshes
       ELSE IF clock >= mem[1].expires_at
       THEN /\ refreshes < MaxRefreshes
            /\ refreshes' = refreshes + 1
            /\ gpc' = [gpc EXCEPT ![c] = "refreshing"]
            /\ UNCHANGED <<guard, gres>>
       ELSE ReturnWith(c, Ok(mem[1].access_token)) /\ UNCHANGED refreshes
    /\ UNCHANGED <<mem, disk, behind, stored, clock, notTM>>

\* self.tokens.write().await resolves and the match runs up to its first
\* await: no tokens, a valid token, or an expired one and the refresh request
WriteLocked(c) ==
    /\ gpc[c] = "locking"
    /\ guard = 0
    /\ IF mem = None
       THEN ReturnWith(c, Err("No tokens available. Please authenticate first."))
            /\ UNCHANGED refreshes
       ELSE IF clock >= mem[1].expires_at
       THEN /\ refreshes < MaxRefreshes
            /\ refreshes' = refreshes + 1
            /\ gpc' = [gpc EXCEPT ![c] = "refreshing"]
            /\ guard' = c
            /\ UNCHANGED gres
       ELSE ReturnWith(c, Ok(mem[1].access_token)) /\ UNCHANGED refreshes
    /\ UNCHANGED <<mem, disk, behind, stored, clock, notTM>>

\* refresh_token(..).await returns a TokenResponse: StoredTokens::from(it),
\* then save_tokens is called
RefreshOk(c) ==
    /\ gpc[c] = "refreshing"
    /\ \E e \in ExpiresIn :
          stored' = [stored EXCEPT ![c] = Some(StoredTokensFrom(AccessToken(refreshes), e))]
    /\ gpc' = [gpc EXCEPT ![c] = "saving"]
    /\ UNCHANGED <<mem, disk, guard, gres, behind, refreshes, clock, notTM>>

\* refresh_token(..).await? fails: the error is returned
RefreshFails(c) ==
    /\ gpc[c] = "refreshing"
    /\ ReturnWith(c, Err("refresh failed"))
    /\ UNCHANGED <<mem, disk, behind, stored, refreshes, clock, notTM>>

\* save_tokens succeeds: *tokens_guard = Some(stored_tokens), Ok(access_token)
SaveOk(c) ==
    /\ gpc[c] = "saving"
    /\ disk' = stored[c]
    /\ mem' = stored[c]
    /\ ReturnWith(c, Ok(stored[c][1].access_token))
    /\ UNCHANGED <<behind, stored, refreshes, clock, notTM>>

\* save_tokens(..).await? fails, before or after the file was written
SaveFails(c) ==
    /\ gpc[c] = "saving"
    /\ disk' \in {disk, stored[c]}
    /\ ReturnWith(c, Err("save failed"))
    /\ UNCHANGED <<mem, behind, stored, refreshes, clock, notTM>>

\* time passes
ClockTick ==
    /\ clock < MaxClock
    /\ clock' = clock + 1
    /\ UNCHANGED <<mem, disk, guard, gpc, gres, behind, stored, refreshes, notTM>>

TokenManagerNext ==
    \/ \E c \in Getters : CallGetValidToken(c)
    \/ \E c \in Getters : WriteLocked(c)
    \/ \E c \in Getters : RefreshOk(c)
    \/ \E c \in Getters : RefreshFails(c)
    \/ \E c \in Getters : SaveOk(c)
    \/ \E c \in Getters : SaveFails(c)
    \/ ClockTick

TokenManagerSpec == TokenManagerInit /\ [][TokenManagerNext]_vars

\* ------------------------------------------------------------ SSE processor
\* process_chunk of ai/sse.rs on character streams made of whole lines, cut
\* into chunks at any character.  Strings are TLA+ strings.
MaxSseLines == 2

\* the lines a stream is made of: data lines (one with a payload the parser
\* rejects, one ended by CR LF, one with an empty payload), a comment, an
\* empty line, another field, and a data field without the space
SseLines ==
    {"data: x\n", "data: bad\n", "data: y\r\n", "data: \n", ": c\n", "\n",
     "event: m\n", "data:z\n"}

RECURSIVE Concat(_)
Concat(ss) == IF ss = <<>> THEN "" ELSE Head(ss) \o Concat(Tail(ss))

SseStreams == {Concat(ls) : ls \in UNION {[1..n -> SseLines] : n \in 0..MaxSseLines}}

CharAt(s, i) == SubSeq(s, i, i)

\* s.ends_with(p)
EndsWith(s, p) == Len(s) >= Len(p) /\ SubSeq(s, Len(s) - Len(p) + 1, Len(s)) = p

\* s.strip_prefix(p), for an s that starts with p
StripPrefix(s, p) == SubSeq(s, Len(p) + 1, Len(s))

\* str::lines: a line ends at "\n" or "\r\n", the ending is not part of it; a
\* last line without ending is a line if it is not empty, and keeps a bare CR
RECURSIVE LinesFrom(_, _, _)
LinesFrom(s, i, cur) ==
    IF i > Len(s) THEN (IF cur = "" THEN <<>> ELSE <<cur>>)
    ELSE IF CharAt(s, i) = "\n"
         THEN <<IF EndsWith(cur, "\r") THEN SubSeq(cur, 1, Len(cur) - 1) ELSE cur>>
                  \o LinesFrom(s, i + 1, "")
         ELSE LinesFrom(s, i + 1, cur \o CharAt(s, i))

lines(s) == LinesFrom(s, 1, "")

\* parser.parse_event(..)? fails on this payload
Rejected(data) == data = "bad"

\* the loop over the complete lines: the payloads handed to process_sse_data,
\* up to and including the first one it returns an Err for
RECURSIVE HandLines(_)
HandLines(ls) ==
    IF ls = <<>> THEN [payloads |-> <<>>, err |-> FALSE]
    ELSE LET l == Head(ls)
         IN  IF l = "" \/ StartsWith(l, ":") \/ ~StartsWith(l, "data: ")
             THEN HandLines(Tail(ls))
             ELSE LET data == StripPrefix(l, "data: ")
                      rest == HandLines(Tail(ls))
                  IN  IF Rejected(data)
                      THEN [payloads |-> <<data>>, err |-> TRUE]
                      ELSE [payloads |-> <<data>> \o rest.payloads, err |-> rest.err]

\* self.partial_line after the chunk
PartialOf(combined) ==
    IF ~EndsWith(combined, "\n") /\ lines(combined) /= <<>>
    THEN lines(combined)[Len(lines(combined))]
    ELSE ""

\* lines.iter().take(lines_to_process)
LinesToProcess(combined) ==
    SubSeq(lines(combined), 1,
           IF PartialOf(combined) = "" THEN Len(lines(combined))
           ELSE Len(lines(combined)) - 1)

SseInit ==
    /\ stream \in SseStreams
    /\ received = 0
    /\ partial_line = ""
    /\ handed = <<>>
    /\ sseFailed = FALSE
    /\ splitInLine = FALSE
    /\ NoBatch
    /\ NoTokens
    /\ NoCache
    /\ NoLocks
    /\ NoStats
    /\ NoTool
    /\ NoWrap
    /\ NoCalls
    /\ NoUpdate
    /\ NoTokenManager
    /\ NoTransport

\* faulty variant: the unfinished last line is processed with the others and
\* not kept
process_chunk_no_partial(text) ==
    LET combined == partial_line \o text
        out == HandLines(lines(combined))
    IN  /\ partial_line' = ""
        /\ handed' = handed \o out.payloads
        /\ sseFailed' = out.err
        /\ splitInLine' = (splitInLine \/ ~EndsWith(combined, "\n"))

\* process_chunk(bytes, parser), for the text of the chunk
process_chunk(text) ==
    LET combined == partial_line \o text
        out == HandLines(LinesToProcess(combined))
    IN  /\ partial_line' = PartialOf(combined)
        /\ handed' = handed \o out.payloads
        /\ sseFailed' = out.err
        /\ splitInLine' = (splitInLine \/ ~EndsWith(combined, "\n"))

\* the next chunk of the stream arrives, of any length; an Err of
\* process_chunk ends the processing of the stream
ReceiveChunk ==
    /\ ~sseFailed
    /\ \E n \in 1..(Len(stream) - received) :
          /\ process_chunk(SubSeq(stream, received + 1, received + n))
          /\ received' = received + n
    /\ UNCHANGED <<stream, notSse>>

SseNext == ReceiveChunk

SseSpec == SseInit /\ [][SseNext]_vars

\* ------------------------------------------------------------ LSP transport
\* send and receive of lsp/transport.rs, called by concurrent tasks, on the
\* two pipes of the child.  Bytes are the characters of TLA+ strings (ASCII).
MaxSenders == 2
MaxReceivers == 2
\* the number of framed messages the child writes
MaxFrames == 2
\* the number of calls of send and receive together
MaxTransportCalls == 4

Senders == 1..MaxSenders
Receivers == 1..MaxReceivers

CONTENT_LENGTH == "Content-Length: "

\* the messages given to send
Messages == {"a", "{}"}

Digit(d) == CharAt("0123456789", d + 1)

\* format!("{}", n) of a usize
RECURSIVE Decimal(_)
Decimal(n) == IF n < 10 THEN Digit(n) ELSE Decimal(n \div 10) \o Digit(n % 10)

RECURSIVE ParseDigits(_, _)
ParseDigits(s, acc) ==
    IF s = "" THEN acc
    ELSE IF \E d \in 0..9 : Digit(d) = CharAt(s, 1)
         THEN ParseDigits(SubSeq(s, 2, Len(s)),
                          acc * 10 + (CHOOSE d \in 0..9 : Digit(d) = CharAt(s, 1)))
         ELSE -1

\* len_str.parse::<usize>(): digits after an optional "+"; -1 is the Err
ParseUsize(s) ==
    LET digits == IF StartsWith(s, "+") THEN SubSeq(s, 2, Len(s)) ELSE s
    IN  IF digits = "" THEN -1 ELSE ParseDigits(digits, 0)

\* the header send writes before the message
Header(m) == CONTENT_LENGTH \o Decimal(Len(m)) \o "\r\n\r\n"

Frame(m) == Header(m) \o m

IsSpace(c) == c \in {" ", "\t", "\n", "\r"}

RECURSIVE TrimStart(_)
TrimStart(s) ==
    IF s /= "" /\ IsSpace(CharAt(s, 1)) THEN TrimStart(SubSeq(s, 2, Len(s))) ELSE s

RECURSIVE TrimEnd(_)
TrimEnd(s) ==
    IF s /= "" /\ IsSpace(CharAt(s, Len(s))) THEN TrimEnd(SubSeq(s, 1, Len(s) - 1)) ELSE s

\* str::trim
Trim(s) == TrimEnd(TrimStart(s))

\* the index of the last byte read_line reads when it starts at byte p: the
\* next "\n", or the end of the stream
RECURSIVE LineEnd(_, _)
LineEnd(s, p) ==
    IF p > Len(s) THEN Len(s)
    ELSE IF CharAt(s, p) = "\n" THEN p ELSE LineEnd(s, p + 1)

\* read_line after pos bytes have been read: the line with its ending; ""
\* at the end of the stream
ReadLine(s, pos) == SubSeq(s, pos + 1, LineEnd(s, pos + 1))

\* what the child writes for one message: output lines before the headers,
\* other headers before and after Content-Length, the blank line, the body
ChildFrame(junk, before, after, body) ==
    [bytes |-> junk \o before \o CONTENT_LENGTH \o Decimal(Len(body)) \o "\r\n"
                 \o after \o "\r\n" \o body,
     body |-> body]

\* a bare frame; blank lines first; a log line that mentions the header
\* first and a body of ten bytes with a line ending in it; a line of white
\* space and a Content-Type header first and an empty body; a Content-Type
\* header after Content-Length and a body of line endings
ChildFrames ==
    {ChildFrame("", "", "", "a"),
     ChildFrame("\r\n\n", "", "", "b"),
     ChildFrame("warn: no Content-Length: 7\n", "", "", "{\"id\":1}\r\n"),
     ChildFrame(" \t\n", "Content-Type: x\r\n", "", ""),
     ChildFrame("", "", "Content-Type: x\r\n", "\n\n")}

ChildOutputs == UNION {[1..n -> ChildFrames] : n \in 0..MaxFrames}

TransportInit ==
    /\ stdin_lock = 0
    /\ stdin_bytes = ""
    /\ stdin_closed = FALSE
    /\ send_pc = [s \in Senders |-> "idle"]
    /\ send_msg = [s \in Senders |-> ""]
    /\ stdout_lock = 0
    /\ \E fs \in ChildOutputs :
          /\ server_out = Concat([i \in 1..Len(fs) |-> fs[i].bytes])
          /\ expected = [i \in 1..Len(fs) |-> fs[i].body]
    /\ read_pos = 0
    /\ recv_pc = [r \in Receivers |-> "idle"]
    /\ content_length = [r \in Receivers |-> None]
    /\ returned = <<>>
    /\ NoBatch
    /\ NoTokens
    /\ NoCache
    /\ NoLocks
    /\ NoStats
    /\ NoTool
    /\ NoWrap
    /\ NoCalls
    /\ NoUpdate
    /\ NoTokenManager
    /\ NoSse

recvUnchanged == <<server_out, expected, read_pos, stdout_lock, recv_pc, content_length, returned>>
sendUnchanged == <<stdin_lock, stdin_bytes, stdin_closed, send_pc, send_msg>>

\* the calls of send and receive made so far
TransportCalls ==
    Cardinality({s \in Senders : send_pc[s] /= "idle"})
      + Cardinality({r \in Receivers : recv_pc[r] /= "idle"}) + Len(returned)

\* a task calls send(message) and waits for the guard of self.stdin
SendCall(s) ==
    /\ send_pc[s] = "idle"
    /\ TransportCalls < MaxTransportCalls
    /\ \E m \in Messages : send_msg' = [send_msg EXCEPT ![s] = m]
    /\ send_pc' = [send_pc EXCEPT ![s] = "waiting"]
    /\ UNCHANGED <<stdin_lock, stdin_bytes, stdin_closed, recvUnchanged, notTransport>>

\* faulty variant: the guard is handed out while another sender holds it
SendLockShared(s) ==
    /\ send_pc[s] = "waiting"
    /\ stdin_lock' = s
    /\ send_pc' = [send_pc EXCEPT ![s] = "locked"]
    /\ UNCHANGED <<stdin_bytes, stdin_closed, send_msg, recvUnchanged, notTransport>>

\* self.stdin.lock().await returns the guard
SendLock(s) ==
    /\ send_pc[s] = "waiting"
    /\ stdin_lock = 0
    /\ stdin_lock' = s
    /\ send_pc' = [send_pc EXCEPT ![s] = "locked"]
    /\ UNCHANGED <<stdin_bytes, stdin_closed, send_msg, recvUnchanged, notTransport>>

\* stdin.write_all(header.as_bytes()).await?: an Err returns and drops the guard
WriteHeader(s) ==
    /\ send_pc[s] = "locked"
    /\ IF stdin_closed
       THEN /\ send_pc' = [send_pc EXCEPT ![s] = "err_header"]
            /\ stdin_lock' = 0
            /\ UNCHANGED stdin_bytes
       ELSE /\ stdin_bytes' = stdin_bytes \o Header(send_msg[s])
            /\ send_pc' = [send_pc EXCEPT ![s] = "header"]
            /\ UNCHANGED stdin_lock
    /\ UNCHANGED <<stdin_closed, send_msg, recvUnchanged, notTransport>>

\* stdin.write_all(message.as_bytes()).await?, flush, Ok(()): the guard is
\* dropped at the return
WriteBody(s) ==
    /\ send_pc[s] = "header"
    /\ IF stdin_closed
       THEN /\ send_pc' = [send_pc EXCEPT ![s] = "err_body"]
            /\ UNCHANGED stdin_bytes
       ELSE /\ stdin_bytes' = stdin_bytes \o send_msg[s]
            /\ send_pc' = [send_pc EXCEPT ![s] = "ok"]
    /\ stdin_lock' = 0
    /\ UNCHANGED <<stdin_closed, send_msg, recvUnchanged, notTransport>>

\* the child closes its stdin: every later write fails
ChildClosesStdin ==
    /\ ~stdin_closed
    /\ stdin_closed' = TRUE
    /\ UNCHANGED <<stdin_lock, stdin_bytes, send_pc, send_msg, recvUnchanged, notTransport>>

\* a task calls receive() and waits for the guard of self.stdout
RecvCall(r) ==
    /\ recv_pc[r] = "idle"
    /\ TransportCalls < MaxTransportCalls
    /\ recv_pc' = [recv_pc EXCEPT ![r] = "waiting"]
    /\ UNCHANGED <<server_out, expected, read_pos, stdout_lock, content_length, returned,
                   sendUnchanged, notTransport>>

\* self.stdout.lock().await returns the guard; content_length = None
RecvLock(r) ==
    /\ recv_pc[r] = "waiting"
    /\ stdout_lock = 0
    /\ stdout_lock' = r
    /\ recv_pc' = [recv_pc EXCEPT ![r] = "headers"]
    /\ content_length' = [content_length EXCEPT ![r] = None]
    /\ UNCHANGED <<server_out, expected, read_pos, returned, sendUnchanged, notTransport>>

\* receive returns: the guard is dropped
RecvReturns(r, result) ==
    /\ returned' = Append(returned, result)
    /\ stdout_lock' = 0
    /\ recv_pc' = [recv_pc EXCEPT ![r] = "idle"]
    /\ content_length' = [content_length EXCEPT ![r] = None]

\* one turn of the header loop
ReadHeaderLine(r) ==
    /\ recv_pc[r] = "headers"
    /\ LET raw == ReadLine(server_out, read_pos)
           header == Trim(raw)
       IN  /\ read_pos' = read_pos + Len(raw)
           /\ IF raw = ""
              THEN RecvReturns(r, Err("LSP server closed connection"))
              ELSE IF header = ""
              THEN /\ recv_pc' = [recv_pc EXCEPT ![r] =
                                     IF content_length[r] /= None THEN "body" ELSE "headers"]
                   /\ UNCHANGED <<stdout_lock, content_length, returned>>
              ELSE IF StartsWith(header, CONTENT_LENGTH)
              THEN LET n == ParseUsize(StripPrefix(header, CONTENT_LENGTH))
                   IN  IF n = -1
                       THEN RecvReturns(r, Err("parse"))
                       ELSE /\ content_length' = [content_length EXCEPT ![r] = Some(n)]
                            /\ UNCHANGED <<stdout_lock, recv_pc, returned>>
              ELSE UNCHANGED <<stdout_lock, recv_pc, content_length, returned>>
    /\ UNCHANGED <<server_out, expected, sendUnchanged, notTransport>>

\* stdout.read_exact(&mut body).await?, String::from_utf8(body)?
ReadBody(r) ==
    /\ recv_pc[r] = "body"
    /\ LET length == content_length[r][1]
       IN  IF read_pos + length > Len(server_out)
           THEN /\ read_pos' = Len(server_out)
                /\ RecvReturns(r, Err("early eof"))
           ELSE /\ read_pos' = read_pos + length
                /\ RecvReturns(r, Ok(SubSeq(server_out, read_pos + 1, read_pos + length)))
    /\ UNCHANGED <<server_out, expected, sendUnchanged, notTransport>>

Sender(s) == SendCall(s) \/ SendLock(s) \/ WriteHeader(s) \/ WriteBody(s)

Receiver(r) == RecvCall(r) \/ RecvLock(r) \/ ReadHeaderLine(r) \/ ReadBody(r)

TransportNext ==
    \/ \E s \in Senders : Sender(s)
    \/ ChildClosesStdin
    \/ \E r \in Receivers : Receiver(r)

TransportSpec == TransportInit /\ [][TransportNext]_vars

\* ------------------------------------------------------------ claims
ResultIds == {results[j].task_id : j \in 1..Len(results)}
SubmittedIds == {tasks[i] : i \in Tasks}
Running == {i \in Tasks : st[i] = "Running"}
Waiting == {i \in Tasks : st[i] = "AwaitingPermit"}

\* C1: whatever the outcome of each task (success, agent error, semaphore
\* timeout, cancelled before start, panic), the list execute returns has
\* exactly one entry per submitted task; the join loop never holds more.
C1_OneResultPerTask ==
    /\ Len(results) = joined
    /\ mainpc = "done" => Len(results) = Len(tasks)

\* a returned batch in which one unit panicked, one timed out and one was cancelled
C1_Witness ==
    /\ mainpc = "done"
    /\ \E i, j, k \in Tasks :
          st[i] = "Panicked" /\ st[j] = "TimedOut" /\ st[k] = "Cancelled"

\* C2: with pairwise distinct submitted ids, the task_id values of the
\* returned list are the submitted ids, also when a unit panicked.
C2_ReturnedIdsAreSubmittedIds ==
    mainpc = "done" => ResultIds = SubmittedIds

\* C3: when a task's agent loop panics, execute still returns; the entry
\* standing for that task has success = false, and every other task has
\* ended and its entry is the result its own unit returned.
C3_FaultIsolation ==
    mainpc = "done" =>
        \A p \in Tasks : st[p] = "Panicked" =>
            /\ p \in DOMAIN results /\ results[p].success = FALSE
            /\ \A i \in Tasks \ {p} :
                  /\ st[i] \in Terminal
                  /\ handle[i].kind = "ok" =>
                        i \in DOMAIN results /\ results[i] = handle[i].result

\* a returned batch where the first task panicked and a later one succeeded
C3_Witness ==
    /\ mainpc = "done"
    /\ \E p, i \in Tasks :
          /\ p < i /\ st[p] = "Panicked" /\ st[i] = "Succeeded"
          /\ results[i] = AgentResult(tasks[i], TRUE)

\* C4: at no time do more than max_concurrency tasks hold a permit, and so
\* at most max_concurrency run their agent loop.
C4_BoundedConcurrency ==
    /\ Cardinality(Holders) <= max_concurrency
    /\ Cardinality(Running) <= max_concurrency

\* more tasks than permits: the semaphore is saturated and a task waits
C4_Witness ==
    /\ max_concurrency = 2
    /\ Cardinality(Running) = 2
    /\ Waiting /= {}

\* C5: a step lets at most one waiting task through, only when a permit is
\* free, and consumes that permit; a release frees exactly one permit.  So
\* with the semaphore saturated one release admits one waiter, and the next
\* waiter proceeds only after another release.
C5_OneReleaseOneAcquire ==
    [][LET admitted == {i \in Tasks : st[i] = "AwaitingPermit" /\ st'[i] = "GotPermit"}
       IN  /\ Cardinality(admitted) <= 1
           /\ admitted /= {} => permits > 0 /\ permits' = permits - 1
           /\ permits' > permits => permits' = permits + 1 /\ admitted = {}]_vars

\* one permit, three tasks: the first has finished and released, the second
\* took the permit and runs, the third still waits
C5_Witness ==
    /\ max_concurrency = 1
    /\ \E i, j, w \in Tasks :
          /\ st[i] \in {"Succeeded", "Failed", "Panicked"}
          /\ st[j] = "Running"
          /\ st[w] = "AwaitingPermit"

\* C6: execute eventually returns its result list, even when the agent loop
\* of one of its tasks never returns.
C6_ExecuteReturns == <>(mainpc = "done")

PreCheck == {"Queued", "Staggering", "AwaitingPermit", "GotPermit"}
NeverStarted(i) ==
    /\ rootCancelled
    /\ st[i] \in PreCheck \cup {"TimedOut", "Cancelled"}
    /\ invoked[i] = 0

\* C7: a task that has not passed its cancellation check has not entered the
\* agent loop, and once the root is cancelled while a task is before its
\* check (not launched, staggering, waiting for a permit, or holding one
\* unchecked) that task never enters the agent loop: it stays before the
\* check or ends as TimedOut or Cancelled.
C7_NoAgentLoopAfterCancel ==
    /\ [](\A i \in Tasks : st[i] \in PreCheck => invoked[i] = 0)
    /\ [][\A i \in Tasks : NeverStarted(i) => NeverStarted(i)']_vars

\* the root was cancelled in mid-batch: one task had started before, another
\* ended as Cancelled without its agent loop being entered
C7_Witness ==
    /\ rootCancelled
    /\ \E i, j \in Tasks :
          /\ st[i] = "Cancelled" /\ invoked[i] = 0
          /\ st[j] \in {"Running", "Succeeded"} /\ invoked[j] = 1

\* C8 as stated: once the root is cancelled, a task that is not yet past its
\* cancellation check can only end with the Cancelled result.
C8_CancelledTasksEndCancelled ==
    [][\A i \in Tasks :
        (rootCancelled /\ st[i] \in PreCheck /\ st'[i] \notin PreCheck) =>
            /\ st'[i] = "Cancelled"
            /\ handle'[i] = Joined(CancelledResult(tasks[i]))]_vars

\* C8 as amended: once the root is cancelled, a task that is not yet past its
\* cancellation check ends without its agent loop being entered, with
\* success = false: with the Cancelled result when it obtains a permit, with
\* the semaphore-timeout result when its 300 s wait elapses first.
C8_CancelledTasksEndCancelledOrTimedOut ==
    [][\A i \in Tasks :
        (rootCancelled /\ st[i] \in PreCheck /\ st'[i] \notin PreCheck) =>
            /\ \/ /\ st[i] = "GotPermit" /\ st'[i] = "Cancelled"
                  /\ handle'[i] = Joined(CancelledResult(tasks[i]))
               \/ /\ st[i] = "AwaitingPermit" /\ st'[i] = "TimedOut"
                  /\ handle'[i] = Joined(TimeoutResult(tasks[i]))
            /\ handle'[i].result.success = FALSE
            /\ invoked'[i] = 0]_vars

\* the root is cancelled; one task has ended as Cancelled, and another, still
\* waiting for a permit, has reached its deadline and can only time out
C8_Witness ==
    /\ rootCancelled
    /\ \E i, j \in Tasks :
          /\ st[i] = "Cancelled" /\ handle[i] = Joined(CancelledResult(tasks[i]))
          /\ st[j] = "AwaitingPermit" /\ j \in childCancelled
          /\ ENABLED Timeout(j)

\* C9: a task ends as TimedOut only after waiting SEMAPHORE_TIMEOUT from its
\* own launch, never waits longer, and then carries the semaphore-timeout
\* failure; the step that times it out changes no sibling's state, handle or
\* token, nor the root token, nor the semaphore.
C9_TimeoutIsPerTask ==
    /\ [](\A i \in Tasks :
            /\ st[i] = "TimedOut" =>
                  /\ handle[i] = Joined(TimeoutResult(tasks[i]))
                  /\ handle[i].result.success = FALSE
                  /\ now >= launch[i] + SemaphoreTimeoutMs
            /\ st[i] = "AwaitingPermit" => now <= launch[i] + SemaphoreTimeoutMs)
    /\ [][\A i \in Tasks :
            (st[i] = "AwaitingPermit" /\ st'[i] = "TimedOut") =>
                /\ \A j \in Tasks \ {i} : st'[j] = st[j] /\ handle'[j] = handle[j]
                /\ childCancelled' = childCancelled
                /\ rootCancelled' = rootCancelled
                /\ permits' = permits]_vars

\* staggered launches: a later task has timed out at its own deadline while
\* a sibling ran its agent loop and returned its own result, uncancelled
C9_Witness ==
    /\ ~rootCancelled
    /\ stagger_delay > 0
    /\ \E i, j \in Tasks :
          /\ i > 1 /\ st[i] = "TimedOut" /\ now = launch[i] + SemaphoreTimeoutMs
          /\ st[j] = "Succeeded" /\ handle[j] = Joined(AgentResult(tasks[j], TRUE))

\* C10 as stated: for every limit k >= 1, while one task sits in its agent
\* loop as the only permit holder, every waiting task can acquire a permit.
C10_StuckTaskLeavesPermits ==
    max_concurrency >= 1 =>
        \A s, j \in Tasks :
            (st[s] = "Running" /\ Holders = {s} /\ st[j] = "AwaitingPermit") =>
                ENABLED Acquire(j)

\* C10 as amended: while one task sits in its agent loop as the only permit
\* holder, every waiting task can acquire a permit when k >= 2; with k = 1
\* it cannot, but it does not wait beyond its own deadline, at which it can
\* end by semaphore timeout.
C10_StuckTaskNeverBlocksForever ==
    \A s, j \in Tasks :
        (st[s] = "Running" /\ Holders = {s} /\ st[j] = "AwaitingPermit") =>
            /\ max_concurrency >= 2 => ENABLED Acquire(j)
            /\ max_concurrency = 1 =>
                  /\ ~ENABLED Acquire(j)
                  /\ now <= launch[j] + SemaphoreTimeoutMs
                  /\ now = launch[j] + SemaphoreTimeoutMs => ENABLED Timeout(j)

\* one permit, and a task that has held it for a full timeout: a sibling has
\* ended by semaphore timeout and another, launched later, is at its deadline
C10_Witness ==
    /\ max_concurrency = 1
    /\ \E s, t, j \in Tasks :
          /\ st[s] = "Running" /\ Holders = {s}
          /\ st[t] = "TimedOut"
          /\ st[j] = "AwaitingPermit" /\ now = launch[j] + SemaphoreTimeoutMs

Launched(i) == st[i] \notin {"Queued", "Staggering"}

\* C11: the units are spawned in input order; with a stagger delay D the
\* i-th task (from 0) is spawned no earlier than i * D after the first one;
\* the first task never sleeps, and with D = 0 nobody sleeps.
C11_StaggeredLaunchInOrder ==
    /\ \A i \in Tasks : Launched(i) <=> i <= idx
    /\ \A i \in Tasks :
          Launched(i) => launch[i] >= launch[1] + (i - 1) * stagger_delay
    /\ N > 0 => st[1] /= "Staggering"
    /\ stagger_delay = 0 =>
          mainpc /= "sleep" /\ \A i \in Tasks : st[i] /= "Staggering"

\* three tasks spawned with a stagger: the third exactly 2 * D after the first
C11_Witness ==
    /\ stagger_delay > 0
    /\ N = 3
    /\ Launched(3)
    /\ launch[3] = launch[1] + 2 * stagger_delay

\* task i enters its agent loop in this step
EntersAgentLoop(i) == st[i] = "GotPermit" /\ st'[i] = "Running"

\* C12 as stated: within one batch no two tasks begin their agent loop less
\* than the stagger delay apart, also when the tasks outnumber the permits
\* and start after waiting for one.
C12_AgentLoopsStaggered ==
    [][\A i \in Tasks :
          (EntersAgentLoop(i) /\ lastStart /= None)
              => now - lastStart[1] >= stagger_delay]_vars

\* C12, amended: whatever the concurrency limit, no two units of a batch are
\* spawned less than the stagger delay apart, and a unit enters its agent
\* loop no earlier than it was spawned; the agent loops themselves are not
\* spaced.
C12_SpawnsStaggered ==
    /\ [](\A i, j \in Tasks :
            (i < j /\ Launched(j)) => launch[j] - launch[i] >= (j - i) * stagger_delay)
    /\ [][\A i \in Tasks : EntersAgentLoop(i) => now >= launch[i]]_vars

\* one permit for three staggered tasks: the third enters its agent loop
\* after waiting for the permit the second gave back
C12_Witness ==
    /\ stagger_delay > 0
    /\ max_concurrency = 1
    /\ N = 3
    /\ st[2] \in {"Succeeded", "Failed"}
    /\ st[3] = "Running"
    /\ launch[3] - launch[2] >= stagger_delay

\* C13: once a token is cancelled, every child token obtained from it, through
\* whichever clone of the AgentCancellation and whether before or after the
\* cancel, reports cancelled.
C13_CancelReachesEveryChild ==
    \A k \in ChildTokens :
        tokenCancelled[childTokens[k].of] => tokenCancelled[childTokens[k].token]

\* a cancel through one clone, with a child obtained through the other clone
\* before it and a child obtained after it
C13_Witness ==
    /\ Len(cancellations) = 2
    /\ cancellations[1] = cancellations[2]
    /\ tokenCancelled[cancellations[1]]
    /\ Len(childTokens) = 2
    /\ childTokens[1].of = cancellations[1]
    /\ lastOp = [op |-> "child_token", arg |-> 2]

\* C14: cancelling one child token leaves the token it was obtained from and
\* every other child token as they were, and a token only becomes cancelled
\* by a cancel of itself or of the token it was obtained from.
C14_ChildCancelStaysLocal ==
    /\ [][\A k \in ChildTokens :
            lastOp' = [op |-> "cancel_child", arg |-> k] =>
                /\ tokenCancelled'[childTokens[k].of] = tokenCancelled[childTokens[k].of]
                /\ \A j \in ChildTokens \ {k} :
                      tokenCancelled'[childTokens[j].token]
                          = tokenCancelled[childTokens[j].token]]_vars
    /\ [][\A k \in ChildTokens :
            (~tokenCancelled[childTokens[k].token] /\ tokenCancelled'[childTokens[k].token])
                => \/ lastOp' = [op |-> "cancel_child", arg |-> k]
                   \/ /\ lastOp'.op = "cancel"
                      /\ cancellations[lastOp'.arg] = childTokens[k].of]_vars

\* one of two sibling child tokens was cancelled by its holder: the root and
\* the sibling are not cancelled
C14_Witness ==
    /\ lastOp.op = "cancel_child"
    /\ Len(childTokens) >= 2
    /\ tokenCancelled[childTokens[lastOp.arg].token]
    /\ ~tokenCancelled[childTokens[lastOp.arg].of]
    /\ \E j \in ChildTokens :
          /\ j /= lastOp.arg
          /\ childTokens[j].of = childTokens[lastOp.arg].of
          /\ ~tokenCancelled[childTokens[j].token]

\* the shape of a failure the pool reports itself
IsPoolFailure(r) ==
    /\ ~r.success
    /\ r.error /= None
    /\ r.error[1] /= ""
    /\ r.output = ""
    /\ r.files_examined = <<>>
    /\ r.duration_ms = 0
    /\ r.turns_used = 0

\* C15: a unit that timed out on the semaphore, found the semaphore closed,
\* was cancelled before its start or panicked is reported as a result with
\* success = false, a non-empty error, empty output, no files, duration 0
\* and 0 turns; the join loop goes on past it and execute returns the list.
C15_PoolFailuresAreResults ==
    /\ \A i \in Tasks :
          /\ st[i] \in {"TimedOut", "Cancelled"} =>
                handle[i].kind = "ok" /\ IsPoolFailure(handle[i].result)
          /\ IsPoolFailure(SemaphoreErrorResult(tasks[i]))
    /\ \A j \in 1..joined :
          st[j] \in {"TimedOut", "Cancelled", "Panicked"} =>
              j <= Len(results) /\ IsPoolFailure(results[j])
    /\ mainpc = "done" => Len(results) = N

\* execute has returned a list holding a timeout, a cancellation and a panic
C15_Witness ==
    /\ mainpc = "done"
    /\ \E i, j, k \in 1..Len(results) :
          /\ results[i] = TimeoutResult(tasks[i])
          /\ results[j] = CancelledResult(tasks[j])
          /\ results[k] = PanicPlaceholder

\* The state of task i in the terms of the task state machine: Queued until
\* the spawn loop reaches it, Staggering while the spawn loop is at its
\* iteration (the stagger test and sleep), AwaitingPermit from the spawn to
\* the cancellation check, then the state its unit is in.
TaskState(i) ==
    IF st[i] = "Queued" /\ mainpc = "loop" /\ idx + 1 = i THEN "Staggering"
    ELSE IF st[i] = "GotPermit" THEN "AwaitingPermit"
    ELSE st[i]

TaskEdges ==
    {<<"Queued", "Staggering">>, <<"Staggering", "AwaitingPermit">>,
     <<"AwaitingPermit", "TimedOut">>, <<"AwaitingPermit", "Cancelled">>,
     <<"AwaitingPermit", "Running">>,
     <<"Running", "Succeeded">>, <<"Running", "Failed">>, <<"Running", "Panicked">>}

\* C16: a task only moves along Queued -> Staggering -> AwaitingPermit ->
\* {TimedOut, Cancelled, Running} and Running -> {Succeeded, Failed,
\* Panicked}; no terminal state is left; Running is entered only by a unit
\* that holds a permit and whose token the cancellation check found not
\* cancelled.
C16_TaskStateMachine ==
    [][\A i \in Tasks :
          /\ TaskState(i)' /= TaskState(i) => <<TaskState(i), TaskState(i)'>> \in TaskEdges
          /\ (st'[i] = "Running" /\ st[i] /= "Running") =>
                /\ st[i] = "GotPermit"
                /\ i \notin childCancelled
                /\ permits' + Cardinality(Holders') = max_concurrency]_vars

\* a returned batch whose tasks ended in Succeeded, Failed and Cancelled
C16_Witness ==
    /\ mainpc = "done"
    /\ \E i, j, k \in Tasks :
          st[i] = "Succeeded" /\ st[j] = "Failed" /\ st[k] = "Cancelled"

\* C17: the pool never retries: a unit waits for a permit once, from its
\* spawn, with the one deadline armed then; the agent loop is entered at most
\* once per task; a task that timed out, was cancelled or otherwise ended
\* stays as it ended.
C17_NoRetry ==
    /\ [](\A i \in Tasks : invoked[i] <= 1)
    /\ [][\A i \in Tasks :
            /\ st[i] \in Terminal => st'[i] = st[i]
            /\ (st'[i] = "AwaitingPermit" /\ st[i] /= "AwaitingPermit")
                  => st[i] \in {"Queued", "Staggering"}
            /\ Launched(i) => launch'[i] = launch[i]]_vars

\* a returned batch in which one task failed in its agent loop and another
\* timed out waiting for a permit
C17_Witness ==
    /\ mainpc = "done"
    /\ \E i, j \in Tasks :
          /\ st[i] = "Failed" /\ invoked[i] = 1
          /\ st[j] = "TimedOut" /\ invoked[j] = 0

\* the events sent on the progress channel for task i
ProgressOf(i) == {progress[i][n] : n \in 1..Len(progress[i])}

\* C18: when execute_with_progress (or execute_builders) has returned, every
\* submitted task has had a Started event and a Completed or Failed event on
\* the progress channel, also a task that ended by semaphore timeout, by
\* cancellation before its start or by panic.
C18_EveryTaskReportsProgress ==
    mainpc = "done" =>
        \A i \in Tasks :
            /\ StartedEvent \in ProgressOf(i)
            /\ ProgressOf(i) \cap {TerminalEvent(TRUE), TerminalEvent(FALSE)} /= {}

\* C19: an entry computed during one execute call is not visible to the tasks
\* of a later execute call, also not of a later call on the same pool: no
\* caller is handed a value computed in an earlier call.
C19_NoLeakAcrossBatches ==
    \A c \in Callers :
        (cstate[c] = "returned" /\ cresult[c][1].kind = "value")
            => cresult[c][1].batch = batch

Computing(k) == {c \in Callers : cstate[c] = "computing" /\ ckey[c] = k}
Returned(k) == {c \in Callers : cstate[c] = "returned" /\ ckey[c] = k}

\* C20: for every key at most one computeFn is in flight at any instant; when
\* no computation of the key failed, computeFn ran at most once for it in the
\* batch, and exactly once if the entry is of this batch; every caller that
\* returned with a value holds the value of the entry.
C20_DuplicateSuppression ==
    \A k \in Keys :
        /\ Cardinality(Computing(k)) <= 1
        /\ Computing(k) /= {} <=> k \in inflight
        /\ failures[k] = 0 => computes[k] <= 1
        /\ (failures[k] = 0 /\ entries[k] /= NoEntry /\ entries[k].batch = batch)
              => computes[k] = 1
        /\ \A c \in Returned(k) :
              cresult[c][1].kind = "value" => cresult[c][1] = entries[k]

\* three callers of one key in one batch: one computed it while another
\* waited, the third came later; all hold the one value, computed once
C20_Witness ==
    \E k \in Keys :
        /\ Returned(k) = Callers
        /\ computes[k] = 1
        /\ entries[k] /= NoEntry
        /\ entries[k].batch = batch
        /\ \A c \in Callers : cresult[c] = Some(entries[k])

\* caller c's computeFn fails in this step
FailsNow(c) == cstate[c] = "computing" /\ cresult'[c] = Some(Error)

\* caller c enters GetOrCompute for key k in this step
CallsNow(c, k) == cstate[c] = "idle" /\ cstate'[c] /= "idle" /\ ckey'[c] = k

\* C21: a failed computation leaves its key without an entry and not in
\* flight; a caller that then asks for the key, finding neither, runs its
\* own computeFn; an entry once written is never overwritten or removed.
C21_FailureIsNotCached ==
    /\ [](\A k \in Keys : entries[k] /= Error)
    /\ [][\A c \in Callers :
            FailsNow(c) => entries'[ckey[c]] = NoEntry /\ ckey[c] \notin inflight']_vars
    /\ [][\A c \in Callers, k \in Keys :
            (CallsNow(c, k) /\ entries[k] = NoEntry /\ k \notin inflight)
                => cstate'[c] = "computing" /\ computes'[k] = computes[k] + 1]_vars
    /\ [][\A k \in Keys : entries[k] /= NoEntry => entries'[k] = entries[k]]_vars

\* the first computeFn of a key failed, a later caller computed the key again
\* and succeeded: one caller holds the error, another the value
C21_Witness ==
    \E k \in Keys :
        /\ failures[k] = 1
        /\ computes[k] = 2
        /\ entries[k] /= NoEntry
        /\ \E c, d \in Returned(k) :
              cresult[c] = Some(Error) /\ cresult[d] = Some(entries[k])

InCritical(p) == {b \in Builders : bstate[b] = "critical" /\ bpath[b] = p}
InCall(p) == {b \in Builders : bstate[b] /= "idle" /\ bpath[b] = p}

\* C22: for every path at most one builder is inside the critical section of
\* WithFileLock, and every builder inside a call for the path, also one of
\* two that came to a new path together, has the one lock object of the path.
C22_FileLockMutualExclusion ==
    \A p \in Paths :
        /\ Cardinality(InCritical(p)) <= 1
        /\ \A b \in InCall(p) : fileLocks[p] /= 0 /\ myLock[b] = fileLocks[p]
        /\ \A b \in InCritical(p) : lockHolder[fileLocks[p]] = b

\* two builders came to a path together on their first call: one is inside
\* the critical section, the other waits for the same lock object
C22_Witness ==
    \E p \in Paths, a, b \in Builders :
        /\ lockCalls[a] = 1 /\ lockCalls[b] = 1
        /\ bstate[a] = "critical" /\ bpath[a] = p
        /\ bstate[b] = "waiting" /\ bpath[b] = p
        /\ myLock[a] = myLock[b]

\* f[1] + .. + f[n]
RECURSIVE SumTo(_, _)
SumTo(f, n) == IF n = 0 THEN 0 ELSE f[n] + SumTo(f, n - 1)

\* builder b's call reaches its acquisition in this step
AcquiresNow(b) == bstate[b] = "found" /\ bstate'[b] /= "found"

\* C23: lockContentions goes up by one in exactly the steps in which a call
\* finds the lock of its path held by another builder at its acquisition,
\* and in no other step: not when a free lock is taken, not when a waiter
\* gets the lock.
C23_ContentionsCountWaits ==
    /\ [][\A b \in Builders :
            AcquiresNow(b) =>
                lockContentions' = lockContentions +
                    (IF lockHolder[myLock[b]] \notin {0, b} THEN 1 ELSE 0)]_vars
    /\ [][(\A b \in Builders : ~AcquiresNow(b))
            => lockContentions' = lockContentions]_vars
    /\ [](lockContentions <= SumTo(lockCalls, Len(lockCalls)))

\* one call found its lock held and was counted, then got the lock; another
\* call took a free lock
C23_Witness ==
    /\ lockContentions = 1
    /\ \E a, b \in Builders :
          /\ a /= b
          /\ bstate[a] = "critical"
          /\ fnResult[b] /= "none"
          /\ lockCalls[a] = 1 /\ lockCalls[b] = 1
          /\ bpath[a] = bpath[b]

\* C24: the lock is released on every exit of fn: a lock is held only by a
\* builder inside its critical section, so once a call has returned, with fn
\* failed or not, the lock of its path is free for the next builder.
C24_LockReleasedOnEveryExit ==
    /\ \A l \in Locks :
          lockHolder[l] /= 0 =>
              bstate[lockHolder[l]] = "critical" /\ myLock[lockHolder[l]] = l
    /\ \A b \in Builders :
          (bstate[b] = "idle" /\ fnResult[b] /= "none") =>
              \A l \in Locks : lockHolder[l] /= b

\* fn of one builder failed inside the lock of a path, and another builder is
\* now inside the critical section of that path
C24_Witness ==
    \E a, b \in Builders :
        /\ a /= b
        /\ bstate[a] = "idle" /\ fnResult[a] = "failed"
        /\ bstate[b] = "critical" /\ bpath[b] = bpath[a]

AllJoined == \A b \in Builders : bjoined[b]

\* C25: once every builder has been joined, linesAdded, linesRemoved and
\* filesModified are the sums of the arguments of all RecordChange calls,
\* whatever the interleaving of the calls; no counter ever goes down.
C25_StatsLoseNoUpdate ==
    /\ [](AllJoined =>
            /\ linesAdded = argsAdded
            /\ linesRemoved = argsRemoved
            /\ filesModified = argsModified)
    /\ [][/\ linesAdded' >= linesAdded
          /\ linesRemoved' >= linesRemoved
          /\ filesModified' >= filesModified]_vars

\* all builders joined after each reported edits, the calls having overlapped
C25_Witness ==
    /\ AllJoined
    /\ \A b \in Builders : recCalls[b] = MaxRecords
    /\ linesAdded >= 6
    /\ filesModified >= 2

\* a read of the final statistics: the one at the end of execute_builders or
\* the build tool's own
ReadsStats ==
    \/ toolpc = "join" /\ toolpc' = "returned"
    \/ toolpc = "returned" /\ toolpc' = "format"

\* C26: the final statistics are read only after every launched builder unit
\* has been joined: at both reads, the one that ends execute_builders and the
\* build tool's own, every unit has ended and its handle has been joined; and
\* once a unit is launched the context holds the conventions the call was
\* given, so they were set before the first launch.
C26_StatsReadAfterAllJoined ==
    /\ [][ReadsStats =>
            /\ Len(toolResults) = Len(toolTasks)
            /\ \A i \in ToolUnits : unitSt[i] = "ended"]_vars
    /\ [](\A i \in ToolUnits :
            unitSt[i] /= "unspawned" => ctxConventions = conventions)

C26_Witness ==
    /\ toolpc = "format"
    /\ Len(toolTasks) = 2
    /\ conventions /= None
    /\ \E i \in ToolUnits : unitHandle[i] = Panic

\* C27: in the build tool's output every failed builder is surfaced under the
\* id it was submitted with: for each submitted task whose result has
\* success = false, the errors list holds one entry starting with the task's id.
C27_FailuresUnderSubmittedId ==
    toolpc = "done" =>
        \A i \in ToolUnits :
            ~toolResults[i].success =>
                Cardinality({j \in 1..Len(errors) :
                                StartsWith(errors[j], toolTasks[i])}) = 1

\* C28: count_wrapped_lines(line, w) equals the number of lines wrap_line(line, w)
\* returns, for every line and every width w >= 1, also for words longer than w
\* and for characters of display width 2.
C28_CountMatchesWrap ==
    (wrapped /= None /\ counted /= None /\ max_width >= 1) =>
        counted[1] = Len(wrapped[1])

\* C29: permits are conserved: the free permits plus the tasks holding one
\* are max_concurrency in every state; a task that leaves the unit after
\* acquiring (cancelled before its start, agent loop returned, agent loop
\* panicked) gives its permit back in that step; a task that times out held
\* none and frees none; and when execute has returned every permit is free.
C29_PermitsConserved ==
    /\ [](permits + Cardinality(Holders) = max_concurrency)
    /\ [][\A i \in Tasks :
            /\ (HoldsPermit(i) /\ st'[i] \in Terminal) => permits' = permits + 1
            /\ (st[i] = "AwaitingPermit" /\ st'[i] = "TimedOut") =>
                   permits' = permits /\ ~HoldsPermit(i)']_vars
    /\ [](mainpc = "done" => permits = max_concurrency)

\* execute has returned after one unit timed out, one was cancelled before its
\* start and one panicked in its agent loop
C29_Witness ==
    /\ mainpc = "done"
    /\ permits = max_concurrency
    /\ \E i, j, k \in Tasks :
          /\ st[i] = "TimedOut"
          /\ st[j] = "Cancelled"
          /\ st[k] = "Panicked"

\* C30: cancellation is cooperative after the check.  A cancel of the root
\* leaves every task that runs its agent loop running, with its handle
\* unresolved and its permit held; such a task leaves the agent loop only by
\* the loop's own return or panic, giving back its permit in that step; and
\* the result collected for a task whose agent loop returned is the result
\* the agent loop produced, not a Cancelled one.
C30_CooperativeAfterCheck ==
    /\ [][rootCancelled' /= rootCancelled =>
            /\ permits' = permits
            /\ \A i \in Tasks : st[i] = "Running" =>
                  st'[i] = "Running" /\ handle'[i] = Pending]_vars
    /\ [][\A i \in Tasks :
            (i \in childCancelled /\ st[i] = "Running" /\ st'[i] /= "Running") =>
                /\ st'[i] \in {"Succeeded", "Failed", "Panicked"}
                /\ permits' = permits + 1
                /\ st'[i] /= "Panicked" =>
                      handle'[i] = Joined(AgentResult(tasks[i], st'[i] = "Succeeded"))]_vars
    /\ [](\A i \in Tasks :
            (st[i] \in {"Succeeded", "Failed"} /\ i <= joined) =>
                /\ results[i] = AgentResult(tasks[i], st[i] = "Succeeded")
                /\ invoked[i] = 1)

\* the root is cancelled: a task that had passed its check still runs its
\* agent loop and holds its permit, and the success of a task whose token is
\* cancelled too has been collected as the agent loop returned it
C30_Witness ==
    /\ rootCancelled
    /\ \E i \in Tasks :
          /\ i \in childCancelled
          /\ st[i] = "Succeeded"
          /\ i <= joined
          /\ results[i] = AgentResult(tasks[i], TRUE)
    /\ \E j \in Tasks : j \in childCancelled /\ st[j] = "Running" /\ HoldsPermit(j)

\* C31: the returned list is in input order: the i-th collected result is what
\* the i-th task's handle resolved to, that is the result of the i-th
\* submitted task, carrying its id, or the placeholder when its unit
\* panicked, whatever the order in which the tasks finished.
C31_ResultsInInputOrder ==
    \A i \in 1..Len(results) :
        /\ results[i] = JoinResult(handle[i])
        /\ handle[i].kind = "ok" => results[i].task_id = tasks[i]
        /\ handle[i].kind = "panic" => results[i] = PanicPlaceholder

\* one permit: the second task ran its agent loop to a success before the
\* root was cancelled, the first got the permit only after the cancel; the
\* second finished first and still comes second in the returned list
C31_Witness ==
    /\ N >= 2
    /\ mainpc = "done"
    /\ max_concurrency = 1
    /\ st[1] = "Cancelled"
    /\ st[2] = "Succeeded"
    /\ results[1] = CancelledResult(tasks[1])
    /\ results[2] = AgentResult(tasks[2], TRUE)

\* C32: if every agent loop invocation eventually returns or panics, execute
\* eventually returns, for every number of tasks, every concurrency limit
\* (0 included) and every timing of the root's cancel: every task eventually
\* reaches a terminal state, and every wait for a permit ends, by the permit
\* or by the semaphore timeout.
C32_ExecuteTerminates ==
    /\ <>(mainpc = "done")
    /\ \A i \in 1..MaxTasks :
          /\ <>(i \in Tasks => st[i] \in Terminal)
          /\ (i \in Tasks /\ st[i] = "AwaitingPermit")
                ~> (i \in Tasks /\ st[i] \in {"GotPermit", "TimedOut"})

\* execute has returned from a batch without permits: every wait ended by the
\* semaphore timeout
C32_Witness ==
    /\ mainpc = "done"
    /\ max_concurrency = 0
    /\ N = MaxTasks
    /\ \A i \in Tasks : st[i] = "TimedOut"

\* C33: the concurrency bound is per call, not per pool.  Every call has its
\* own semaphore of capacity max_concurrency: its free permits plus its own
\* running units are max_concurrency, so a unit finds no permit only when
\* max_concurrency units of its own call hold one, whatever the other calls
\* do, and it can acquire as soon as fewer do; over all calls up to
\* (number of calls) x max_concurrency agent loops run at the same time.
C33_BoundIsPerCall ==
    \A c \in Calls :
        callpc[c] /= "idle" =>
            /\ sem[c] + Cardinality(RunningIn(c)) = poolMax
            /\ \A t \in CallTasks :
                  (unit[c][t] = "waiting" /\ Cardinality(RunningIn(c)) < poolMax)
                      => ENABLED UnitAcquire(c, t)

\* two calls on one pool, each running max_concurrency agent loops, twice
\* max_concurrency in all
C33_Witness ==
    /\ poolMax = 2
    /\ \A c \in {1, 2} : callpc[c] = "running" /\ Cardinality(RunningIn(c)) = poolMax

\* C34: with with_concurrency(0) no task ever runs its agent loop; every task
\* that ends has the semaphore-timeout failure, not before 300 seconds after
\* its unit was spawned; and execute still returns, with one such result per
\* task.
C34_ZeroConcurrencyTimesOut ==
    /\ [](max_concurrency = 0 =>
            \A i \in Tasks :
                /\ invoked[i] = 0
                /\ st[i] \in {"Queued", "Staggering", "AwaitingPermit", "TimedOut"}
                /\ st[i] = "TimedOut" =>
                      /\ now >= launch[i] + SemaphoreTimeoutMs
                      /\ handle[i] = Joined(TimeoutResult(tasks[i])))
    /\ (max_concurrency = 0) ~>
            /\ mainpc = "done"
            /\ Len(results) = N
            /\ \A i \in Tasks : results[i] = TimeoutResult(tasks[i])

\* execute has returned from a batch without permits whose root was cancelled
\* on the way: every result is the semaphore-timeout failure
C34_Witness ==
    /\ max_concurrency = 0
    /\ N >= 2
    /\ rootCancelled
    /\ mainpc = "done"
    /\ \A i \in Tasks : results[i] = TimeoutResult(tasks[i])

\* C35: reset detaches the handle from what was derived before.  After
\* reset(h) the handle is not cancelled, its token is one that no other
\* handle holds and no child token was derived from, itself derived from
\* nothing, and the reset changes the state of no older token; a cancel
\* through a handle marks only that handle's token and the tokens derived
\* from it.  So a cancel of the reset handle reaches no clone or child
\* obtained before the reset, and a cancel of such a clone does not reach the
\* reset handle.
C35_ResetDetaches ==
    [][/\ lastOp'.op = "reset" =>
            LET h == lastOp'.arg
                t == cancellations'[h]
            IN  /\ ~tokenCancelled'[t]
                /\ tokenParent'[t] = 0
                /\ \A g \in Cancellations \ {h} : cancellations'[g] /= t
                /\ \A k \in ChildTokens :
                      childTokens'[k].token /= t /\ childTokens'[k].of /= t
                /\ \A u \in Tokens :
                      tokenCancelled'[u] = tokenCancelled[u] /\ tokenParent'[u] /= t
       /\ lastOp'.op = "cancel" =>
            \A u \in Tokens :
                tokenCancelled'[u] /= tokenCancelled[u] =>
                    \/ u = cancellations[lastOp'.arg]
                    \/ tokenParent[u] = cancellations[lastOp'.arg]]_vars

\* the first handle was cancelled and then reset: its clone and the child
\* token taken before the reset are cancelled, the handle itself is not
C35_Witness ==
    /\ lastOp = [op |-> "reset", arg |-> 1]
    /\ Len(cancellations) >= 2
    /\ cancellations[2] = 1
    /\ tokenCancelled[1]
    /\ cancellations[1] /= 1
    /\ ~tokenCancelled[cancellations[1]]
    /\ \E k \in ChildTokens :
          childTokens[k].of = 1 /\ tokenCancelled[childTokens[k].token]

\* C36: no GetOrCompute caller waits forever on a key in flight.  A key is in
\* flight exactly while a caller computes it, a computation that ends, by
\* success or by failure, takes its key out of flight in that step, so a
\* failure never leaves the key in flight; and every waiter returns, with the
\* value, or after computing the key itself with that computation's value or
\* error.
C36_NoWaiterWaitsForever ==
    /\ [](\A k \in Keys : k \in inflight <=> Computing(k) /= {})
    /\ [][\A c \in Callers :
            (cstate[c] = "computing" /\ cstate'[c] /= "computing") =>
                ckey[c] \notin inflight']_vars
    /\ \A c \in Callers : (cstate[c] = "waiting") ~> (cstate[c] = "returned")

\* the computation a caller waits for has just failed: the key is out of
\* flight, nothing is stored, and the waiter is about to compute it itself
C36_Witness ==
    \E c \in Callers :
        /\ cstate[c] = "waiting"
        /\ ckey[c] \notin inflight
        /\ entries[ckey[c]] = NoEntry
        /\ failures[ckey[c]] = 1

\* C37: at most one background update check is in flight at a time, and once
\* the background task of a check has ended, for whatever reason, and
\* poll_update_status has run, a start_update_check starts a new check
\* unless an update is Ready.
C37_OneCheckAndRestartable ==
    /\ Cardinality(InFlight) <= 1
    /\ (checkTask /= <<>> /\ InFlight = {} /\ polled /\ ~IsReady) => StartsCheck

\* the callers of get_valid_token with a refresh request or a save under way
Refreshing == {c \in Getters : gpc[c] \in {"refreshing", "saving"}}

\* C38: get_valid_token is single-flight.  At most one caller has a refresh
\* request (or the save that follows it) under way, and it holds the write
\* lock; a caller that gets the lock while the tokens in memory expire in the
\* future, such as one that waited behind a successful refresh, returns their
\* access token without a refresh request; and a call that fails in the
\* refresh or in the save returns the error and leaves the tokens in memory
\* as they were.
C38_SingleFlightRefresh ==
    /\ [](Cardinality(Refreshing) <= 1 /\ \A c \in Refreshing : guard = c)
    /\ [][\A c \in Getters :
            (gpc[c] = "locking" /\ gpc'[c] /= "locking"
                /\ mem /= None /\ clock < mem[1].expires_at) =>
                    /\ gres'[c] = Some(Ok(mem[1].access_token))
                    /\ refreshes' = refreshes
                    /\ mem' = mem]_vars
    /\ [][\A c \in Getters :
            (c \in Refreshing /\ gpc'[c] = "returned" /\ ~gres'[c][1].ok) =>
                mem' = mem]_vars

\* two callers found the token expired: the second called while the first
\* held the lock for its refresh, and returned the refreshed token without a
\* request of its own
C38_Witness ==
    /\ behind[2] = 1
    /\ refreshes = 1
    /\ gres[1] = Some(Ok(AccessToken(1)))
    /\ gres[2] = Some(Ok(AccessToken(1)))
    /\ mem /= None /\ mem[1].access_token = AccessToken(1)

Wrote == {s \in Senders : send_pc[s] \in {"header", "ok", "err_body"}}
Piece(s) == IF send_pc[s] = "ok" THEN Frame(send_msg[s]) ELSE Header(send_msg[s])

\* C40: StdioTransport frames messages.  The k-th receive to return returns
\* exactly the body of the k-th framed message the child wrote, whatever blank
\* lines, output lines and other headers precede its Content-Length header,
\* and a receive after the last message returns an Err; the bytes on the
\* child's stdin are the whole frames of the finished sends one after the
\* other, followed at most by the header of the one send that is between its
\* two writes
C40_FramedInOrder ==
    /\ \A k \in 1..Len(returned) :
          IF k <= Len(expected) THEN returned[k] = Ok(expected[k])
          ELSE ~returned[k].ok
    /\ \E f \in [1..Cardinality(Wrote) -> Wrote] :
          /\ \A i, j \in DOMAIN f : f[i] = f[j] => i = j
          /\ \A i \in DOMAIN f : i < Len(f) => send_pc[f[i]] = "ok"
          /\ stdin_bytes = Concat([i \in DOMAIN f |-> Piece(f[i])])

\* two receives have returned the two messages of an output that holds more
\* than their bare frames, while one sender waits for the guard that another
\* holds between its two writes
C40_Witness ==
    /\ Len(expected) = 2
    /\ returned = <<Ok(expected[1]), Ok(expected[2])>>
    /\ Len(server_out) > Len(Frame(expected[1])) + Len(Frame(expected[2]))
    /\ \E s, t \in Senders : send_pc[s] = "header" /\ send_pc[t] = "waiting"

====
